---- MODULE Spec2Model ----
(***************************************************************************)
(* State-machine model of the chat assistant's dispatch pipeline:          *)
(*   - the confirmation store (utils/confirmation.js, src/unnamed/part_005)*)
(*   - the action history store (utils/actionHistory.js, same file)        *)
(*   - the callback and text handlers of the bot (src/unnamed/part_003)    *)
(* Time is Date.now() in milliseconds.  Every handler is one action,       *)
(* except where an await separates a read of shared state from its use:    *)
(* there the handler is split at the await and other handlers interleave.  *)
(***************************************************************************)
EXTENDS Integers, Sequences, FiniteSets, TLC

VARIABLES
    now,                    \* Date.now()
    inputs,                 \* external inputs received so far (bounds the run)
    pendingConfirmations,   \* the Map userId -> confirmation (a partial function)
    timers,                 \* armed setTimeout callbacks of createConfirmation
    issued,                 \* per user: ids of the confirmations created so far, in order
    handlers,               \* callback handlers suspended at an await
    confirmedRuns,          \* per user: ids whose confirmed action was executed, in order
    actionHistory,          \* the object userId -> list of entries, newest first
    historyFile,            \* action_history.json: {} when absent, else {its content}
    logged,                 \* log.error lines the last step wrote for the history file
    session,                \* ctx.session per user: the flow-state slots
    deleteButtons,          \* per user: cards a trello_confirm_delete button was shown for
    conflictPrompts,        \* per user: the conflict prompts shown so far, each the
                            \* number of its conflict_accept buttons
    update,                 \* the update (or timer) handled by the last step
    calls,                  \* remote mutating calls issued by the last step, in order
    invalidated,            \* scopes the last step passed to scheduler.invalidateCache
    classified,             \* texts the last step sent to the classifier, in order
    replies,                \* messages the last step sent to the user, in order
    users,                  \* rateLimiter.users: the Map userId -> {requests, blockedUntil}
    allowedAt               \* per user: the times of the checks answered as allowed

vars == <<now, inputs, pendingConfirmations, timers, issued, handlers, confirmedRuns,
          actionHistory, historyFile, logged, session, deleteButtons, conflictPrompts,
          update, calls, invalidated, classified, replies, users, allowedAt>>

confVars == <<now, inputs, pendingConfirmations, timers, issued, handlers, confirmedRuns>>
flowVars == <<session, deleteButtons, conflictPrompts, users, allowedAt>>

----------------------------------------------------------------------------
(* Bounds of the model *)

MaxInputs == 5           \* external inputs per run: clock advances, calls, updates
MaxFlowInputs == 4       \* inputs per run when they are messages and flow buttons

Users == {"u1", "u2"}
FlowUsers == {"u1"}      \* the users who send messages and press flow buttons
Event(id, summary) == [id |-> id, summary |-> summary]
CalendarEvents == <<Event("e1", "Reuniao"), Event("e2", "Dentista")>>
RandomSuffixes == {"r1"} \* Math.random().toString(36).substr(2, 5)

----------------------------------------------------------------------------
(* utils/confirmation.js *)

CONFIRMATION_TIMEOUT == 2 * 60 * 1000

\* confirmationId = `conf_${Date.now().toString(36)}`: a function of the clock alone
ConfirmationId(t) == t

\* the confirmation object built by createConfirmation
NewConfirmation(userId, actionType, items, t) ==
    [id |-> ConfirmationId(t), userId |-> userId, actionType |-> actionType,
     items |-> items, createdAt |-> t, expires |-> t + CONFIRMATION_TIMEOUT]

\* a variant that evicts whatever the user has stored
TimerMatches_AnyConfirmation(map, tm) == tm.userId \in DOMAIN map
\* the guard of the setTimeout callback
TimerMatches(map, tm) ==
    /\ tm.userId \in DOMAIN map
    /\ map[tm.userId].id = tm.confirmationId

\* Map.delete
MapDelete(map, k) == [x \in (DOMAIN map) \ {k} |-> map[x]]

\* Map.set
MapSet(map, k, v) == [x \in (DOMAIN map) \cup {k} |-> IF x = k THEN v ELSE map[x]]

\* if (Date.now() > confirmation.expires)
Expired(c, t) == t > c.expires

\* getPendingConfirmation: the value returned (a set: empty for null)
getPendingConfirmation(map, userId, t) ==
    IF userId \notin DOMAIN map THEN {}
    ELSE IF Expired(map[userId], t) THEN {}
    ELSE {map[userId]}

\* getPendingConfirmation: the Map it leaves behind (an expired entry is evicted)
AfterGetPending(map, userId, t) ==
    IF userId \in DOMAIN map /\ Expired(map[userId], t) THEN MapDelete(map, userId)
    ELSE map

\* clearConfirmation
clearConfirmation(map, userId) == MapDelete(map, userId)

----------------------------------------------------------------------------
(* utils/actionHistory.js *)

MAX_HISTORY_PER_USER == 20

\* UNDOABLE_ACTIONS: forward action -> inverse action
UNDOABLE_ACTIONS ==
    [create_event |-> "delete_event", complete_event |-> "uncomplete_event",
     complete_all_events |-> "uncomplete_events", delete_event |-> "restore_event",
     trello_create |-> "trello_delete", trello_archive |-> "trello_unarchive",
     trello_move |-> "trello_move_back", store_info |-> "delete_info"]

\* actionHistory[userId] || []
HistoryOf(hist, userId) == IF userId \in DOMAIN hist THEN hist[userId] ELSE <<>>

\* slice(0, n)
Slice(seq, n) == SubSeq(seq, 1, IF Len(seq) < n THEN Len(seq) ELSE n)


\* a value of the undoType field: a string of the table, or an inherited function
Undefined == [kind |-> "undefined", name |-> ""]

\* UNDOABLE_ACTIONS[actionType], a property lookup on an object literal.  For the
\* names every object inherits from Object.prototype it yields a function, which
\* the test of recordAction takes as true.
Lookup(actionType) ==
    IF actionType \in DOMAIN UNDOABLE_ACTIONS
    THEN [kind |-> "string", name |-> UNDOABLE_ACTIONS[actionType]]
    ELSE IF actionType \in {"constructor", "toString", "valueOf", "hasOwnProperty",
                            "isPrototypeOf", "propertyIsEnumerable", "toLocaleString"}
    THEN [kind |-> "function", name |-> actionType]
    ELSE Undefined

\* if (!UNDOABLE_ACTIONS[actionType]) return
Truthy(v) == v.kind # "undefined"

\* the entry recordAction builds.  The id is the clock in base 36 followed by a
\* random suffix; undoneAt is absent until the entry is marked.
NewAction(actionType, data, result, t, rnd) ==
    [id |-> <<t, rnd>>, type |-> actionType, undoType |-> Lookup(actionType),
     data |-> data, result |-> result, timestamp |-> t, undone |-> FALSE,
     undoneAt |-> {}]

\* a variant that caps the list one entry too late
recordAction_CapsLate(hist, userId, actionType, data, result, t, rnd) ==
    IF ~Truthy(Lookup(actionType)) THEN hist
    ELSE LET list == <<NewAction(actionType, data, result, t, rnd)>>
                        \o HistoryOf(hist, userId)
         IN  MapSet(hist, userId, Slice(list, MAX_HISTORY_PER_USER + 1))

\* recordAction: the in-memory history after the call
recordAction(hist, userId, actionType, data, result, t, rnd) ==
    IF ~Truthy(Lookup(actionType)) THEN hist
    ELSE LET list == <<NewAction(actionType, data, result, t, rnd)>>
                        \o HistoryOf(hist, userId)
         IN  MapSet(hist, userId, Slice(list, MAX_HISTORY_PER_USER))

\* the index of the first entry the callback answers true for, 0 when there is
\* none: Array.prototype.find; holds[i] is the callback's answer for entry i
FirstIndex(holds) ==
    IF \E i \in 1..Len(holds) : holds[i]
    THEN CHOOSE i \in 1..Len(holds) : holds[i] /\ \A j \in 1..(i - 1) : ~holds[j]
    ELSE 0

\* a variant that returns the newest entry whether it is undone or not
getLastAction_IgnoresUndone(hist, userId) ==
    LET list == HistoryOf(hist, userId)
    IN  IF list = <<>> THEN {} ELSE {list[1]}

\* getLastAction: {} for null, else {the first entry that is not undone}
getLastAction(hist, userId) ==
    LET list == HistoryOf(hist, userId)
        i == FirstIndex([k \in 1..Len(list) |-> ~list[k].undone])
    IN  IF i = 0 THEN {} ELSE {list[i]}

\* the entry markAsUndone finds: its index in the user's list, 0 when there is none
FoundAction(hist, userId, actionId) ==
    LET list == HistoryOf(hist, userId)
    IN  FirstIndex([k \in 1..Len(list) |-> list[k].id = actionId])

\* a variant that removes the entry instead of flagging it
markAsUndone_Removes(hist, userId, actionId, t) ==
    LET i == FoundAction(hist, userId, actionId)
        list == HistoryOf(hist, userId)
    IN  IF i = 0 THEN hist
        ELSE MapSet(hist, userId, SubSeq(list, 1, i - 1) \o SubSeq(list, i + 1, Len(list)))

\* markAsUndone: the in-memory history after the call
markAsUndone(hist, userId, actionId, t) ==
    LET i == FoundAction(hist, userId, actionId)
    IN  IF i = 0 THEN hist
        ELSE [hist EXCEPT ![userId][i].undone = TRUE, ![userId][i].undoneAt = {t}]

\* a variant that drops the lists of all users
clearHistory_AllUsers(hist, userId) ==
    IF userId \in DOMAIN hist THEN [u \in {} |-> <<>>] ELSE hist
\* clearHistory: the in-memory history after the call
clearHistory(hist, userId) ==
    IF userId \in DOMAIN hist THEN MapDelete(hist, userId) ELSE hist

\* JSON.stringify of an entry: a property whose value is a function is left out
StringifyAction(a) ==
    [a EXCEPT !.undoType = IF @.kind = "function" THEN Undefined ELSE @]

\* JSON.parse(JSON.stringify(actionHistory)): what the file holds after a write
Stringify(hist) ==
    [u \in DOMAIN hist |-> [i \in 1..Len(hist[u]) |-> StringifyAction(hist[u][i])]]

\* a slip that would leave the write outside the try block: the error escapes
saveHistory_Rethrows(hist, file, written) ==
    [file |-> IF written THEN {Stringify(hist)} ELSE file,
     logged |-> <<>>,
     threw |-> ~written]

\* saveHistory: the file after the call, the lines it logs and whether it throws;
\* written = FALSE: writeFileSync throws, the catch block logs the error
saveHistory(hist, file, written) ==
    [file |-> IF written THEN {Stringify(hist)} ELSE file,
     logged |-> IF written THEN <<>> ELSE <<"error_saving_history">>,
     threw |-> FALSE]

\* loadHistory: the in-memory history after module load
loadHistory(file) == IF file = {} THEN <<>> ELSE CHOOSE content \in file : TRUE

----------------------------------------------------------------------------
(* Remote collaborators: the calls a handler issues *)

\* A call is the service, the operation, the target id, the payload (a field and its
\* value) and the place of index.js that issues it.
Call(svc, op, id, field, value, site) ==
    [svc |-> svc, op |-> op, id |-> id, field |-> field, value |-> value, site |-> site]
GoogleCall(op, id, field, value, site) == Call("google", op, id, field, value, site)
TrelloCall(op, id, field, value, site) == Call("trello", op, id, field, value, site)
KnowledgeCall(op, id, value, site) == Call("knowledge", op, id, "value", value, site)

\* scheduler.invalidateCache(scope), listed among the calls of a handler in the
\* place where the handler makes it
Invalidate(scope, site) == Call("scheduler", "invalidateCache", scope, "scope", scope, site)

\* the scope of the cache a call on the calendar or on the board touches
ScopeOf(call) == IF call.svc = "google" THEN "events" ELSE "trello"

\* of what a handler did in order: its calls on the remote collaborators ...
RECURSIVE RemoteCalls(_)
RemoteCalls(done) ==
    IF done = <<>> THEN <<>>
    ELSE IF Head(done).svc = "scheduler" THEN RemoteCalls(Tail(done))
    ELSE <<Head(done)>> \o RemoteCalls(Tail(done))

\* ... and the scopes it invalidated
RECURSIVE Invalidations(_)
Invalidations(done) ==
    IF done = <<>> THEN <<>>
    ELSE IF Head(done).svc = "scheduler" THEN <<Head(done).id>> \o Invalidations(Tail(done))
    ELSE Invalidations(Tail(done))


\* batchProcess(events, e => updateEvent(e.id, { summary: <mark + e.summary>,
\* colorId: '8' })): one call per item, in order
RECURSIVE CompleteAll(_, _)
CompleteAll(items, site) ==
    IF items = <<>> THEN <<>>
    ELSE <<GoogleCall("updateEvent", Head(items).id, "summary_done", Head(items).summary,
                      site)>>
         \o CompleteAll(Tail(items), site)

Idle == [kind |-> "idle"]

\* the number of occurrences of x in a sequence
Count(seq, x) == Cardinality({k \in 1..Len(seq) : seq[k] = x})

\* the ids of a list of events: events.map(e => e.id)
RECURSIVE IdsOf(_)
IdsOf(items) == IF items = <<>> THEN <<>> ELSE <<Head(items).id>> \o IdsOf(Tail(items))

----------------------------------------------------------------------------
(* ctx.session: the flow-state slots of one user.  A slot is a set: empty when the *)
(* property is absent, a singleton when it is set.                                 *)

KbIds == {"k1"}
CardIds == {"c1", "c2"}

EmptySession ==
    [pendingKBUpdate |-> {}, pendingTrelloUpdate |-> {}, pendingEventUpdate |-> {},
     pendingEvent |-> {}, conflictSuggestions |-> {}, pendingTrelloDelete |-> {}]

----------------------------------------------------------------------------
(* Initial state: the process has just started, nobody has written yet *)

Init ==
    /\ now = 0
    /\ inputs = 0
    /\ pendingConfirmations = <<>>
    /\ timers = {}
    /\ issued = [u \in Users |-> <<>>]
    /\ handlers = [i \in 1..MaxInputs |-> Idle]
    /\ confirmedRuns = [u \in Users |-> <<>>]
    /\ actionHistory = <<>>
    /\ historyFile = {}
    /\ logged = <<>>
    /\ session = [u \in Users |-> EmptySession]
    /\ deleteButtons = [u \in Users |-> {}]
    /\ conflictPrompts = [u \in Users |-> <<>>]
    /\ users = <<>>
    /\ allowedAt = [u \in Users |-> <<>>]
    /\ update = [handler |-> "start"]
    /\ calls = <<>>
    /\ invalidated = <<>>
    /\ classified = <<>>
    /\ replies = <<>>

----------------------------------------------------------------------------
(* The clock and the expiry timers *)

\* the step neither writes the history file nor logs about it
NoHistoryIO == logged' = <<>> /\ historyFile' = historyFile
NoInvalidation == invalidated' = <<>>

Tick(d) ==
    /\ inputs < MaxInputs
    /\ now' = now + d
    /\ inputs' = inputs + 1
    /\ update' = [handler |-> "tick"]
    /\ calls' = <<>> /\ classified' = <<>> /\ replies' = <<>>
    /\ NoHistoryIO /\ NoInvalidation
    /\ UNCHANGED <<pendingConfirmations, timers, issued, handlers,
                   confirmedRuns, actionHistory, flowVars>>

\* the setTimeout callback armed by createConfirmation; it runs no earlier than due
TimerFires(tm) ==
    /\ tm \in timers
    /\ now >= tm.due
    /\ timers' = timers \ {tm}
    /\ pendingConfirmations' =
          IF TimerMatches(pendingConfirmations, tm)
          THEN MapDelete(pendingConfirmations, tm.userId)
          ELSE pendingConfirmations
    /\ update' = [handler |-> "timer", userId |-> tm.userId,
                  confirmationId |-> tm.confirmationId]
    /\ calls' = <<>> /\ classified' = <<>> /\ replies' = <<>>
    /\ NoHistoryIO /\ NoInvalidation
    /\ UNCHANGED <<now, inputs, issued, handlers, confirmedRuns, actionHistory,
                   flowVars>>

----------------------------------------------------------------------------
(* createConfirmation.  The store exports it; no handler of index.js calls it, *)
(* so here it is an operation of the store invoked by its caller.              *)

createConfirmation(userId, actionType, items) ==
    LET c == NewConfirmation(userId, actionType, items, now) IN
    /\ inputs < MaxInputs
    /\ inputs' = inputs + 1
    /\ pendingConfirmations' = MapSet(pendingConfirmations, userId, c)
    /\ timers' = timers \cup {[userId |-> userId, confirmationId |-> c.id,
                               due |-> now + CONFIRMATION_TIMEOUT]}
    /\ issued' = [issued EXCEPT ![userId] = Append(@, c.id)]
    /\ update' = [handler |-> "createConfirmation", userId |-> userId,
                  confirmationId |-> c.id]
    /\ calls' = <<>> /\ classified' = <<>> /\ replies' = <<>>
    /\ NoHistoryIO /\ NoInvalidation
    /\ UNCHANGED <<now, handlers, confirmedRuns, actionHistory, flowVars>>

----------------------------------------------------------------------------
(* bot.action(/^confirm_yes_(.+)$/) *)

\* the confirm_yes_<id> and confirm_no_<id> buttons shown to a user so far
ConfirmButtons(u) == {issued[u][k] : k \in 1..Len(issued[u])}

\* up to the await: const pending = getPendingConfirmation(userId); await answerCbQuery()
ConfirmYesArrives(i, u, cid) ==
    /\ handlers[i] = Idle
    /\ \A j \in 1..(i - 1) : handlers[j] # Idle     \* the first free slot
    /\ cid \in ConfirmButtons(u)
    /\ inputs < MaxInputs
    /\ inputs' = inputs + 1
    /\ handlers' = [handlers EXCEPT ![i] =
          [kind |-> "confirm_yes", userId |-> u, confirmationId |-> cid,
           pending |-> getPendingConfirmation(pendingConfirmations, u, now)]]
    /\ pendingConfirmations' = AfterGetPending(pendingConfirmations, u, now)
    /\ update' = [handler |-> "confirm_yes", phase |-> "arrive", userId |-> u,
                  confirmationId |-> cid]
    /\ calls' = <<>> /\ classified' = <<>> /\ replies' = <<>>
    /\ NoHistoryIO /\ NoInvalidation
    /\ UNCHANGED <<now, timers, issued, confirmedRuns, actionHistory, flowVars>>

\* a slip that would drop the id comparison: if (!pending)
ConfirmYesRejects_NoIdCheck(h) == h.pending = {}

\* if (!pending || pending.id !== confirmationId)
ConfirmYesRejects(h) == h.pending = {} \/ (\A c \in h.pending : c.id # h.confirmationId)

\* executeConfirmedAction: the remote calls it issues when every call succeeds
ConfirmedCalls(pending) ==
    IF pending.actionType = "complete_all_events"
    THEN CompleteAll(pending.items, "executeConfirmedAction")
    ELSE <<>>

\* executeConfirmedAction: the history it leaves when every call succeeds
ConfirmedHistory(hist, userId, pending, t, rnd) ==
    IF pending.actionType = "complete_all_events"
    THEN recordAction(hist, userId, pending.actionType,
                      [count |-> Len(pending.items)],
                      [eventIds |-> IdsOf(pending.items)], t, rnd)
    ELSE hist

\* after the await: the check, clearConfirmation and executeConfirmedAction.
\* failAt = 0: every remote call succeeds; failAt = k: the k-th call throws.
ConfirmYesResumes(i, failAt, rnd) ==
    /\ handlers[i] # Idle
    /\ handlers[i].kind = "confirm_yes"
    /\ LET h == handlers[i]
           u == h.userId
       IN  /\ handlers' = [handlers EXCEPT ![i] = Idle]
           /\ update' = [handler |-> "confirm_yes", phase |-> "resume", userId |-> u,
                         confirmationId |-> h.confirmationId]
           /\ classified' = <<>>
           /\ IF ConfirmYesRejects(h)
              THEN /\ failAt = 0
                   /\ replies' = <<"confirmation_expired">>
                   /\ calls' = <<>>
                   /\ NoHistoryIO /\ NoInvalidation
                   /\ UNCHANGED <<pendingConfirmations, confirmedRuns, actionHistory>>
              ELSE LET pending == CHOOSE c \in h.pending : TRUE
                       all == ConfirmedCalls(pending)
                   IN  /\ failAt <= Len(all)
                       /\ pendingConfirmations' =
                             clearConfirmation(pendingConfirmations, u)
                       /\ confirmedRuns' =
                             [confirmedRuns EXCEPT ![u] = Append(@, pending.id)]
                       /\ IF failAt = 0
                          THEN /\ calls' = all
                               \* scheduler.invalidateCache('events') follows the batch
                               /\ invalidated' =
                                     IF pending.actionType = "complete_all_events"
                                     THEN <<"events">> ELSE <<>>
                               /\ actionHistory' =
                                     ConfirmedHistory(actionHistory, u, pending, now, rnd)
                               \* recordAction ends with saveHistory; an error it
                               \* let through would reach the catch of the callback
                               /\ \E written \in BOOLEAN :
                                     LET recorded ==
                                             pending.actionType = "complete_all_events"
                                         saved == saveHistory(actionHistory',
                                                              historyFile, written)
                                     IN  /\ ~recorded => written
                                         /\ historyFile' =
                                               IF recorded THEN saved.file
                                               ELSE historyFile
                                         /\ logged' = IF recorded THEN saved.logged
                                                      ELSE <<>>
                                         /\ replies' =
                                               IF ~recorded
                                               THEN <<"confirmation_unsupported">>
                                               ELSE IF saved.threw
                                               THEN <<"error_executing">>
                                               ELSE <<"events_completed">>
                          ELSE /\ calls' = SubSeq(all, 1, failAt)
                               /\ actionHistory' = actionHistory
                               /\ NoHistoryIO /\ NoInvalidation
                               /\ replies' = <<"error_executing">>
    /\ UNCHANGED <<now, inputs, timers, issued, flowVars>>

----------------------------------------------------------------------------
(* bot.action(/^confirm_no_(.+)$/) *)

ConfirmNo(u, cid) ==
    /\ cid \in ConfirmButtons(u)
    /\ inputs < MaxInputs
    /\ inputs' = inputs + 1
    /\ pendingConfirmations' = clearConfirmation(pendingConfirmations, u)
    /\ update' = [handler |-> "confirm_no", phase |-> "whole", userId |-> u,
                  confirmationId |-> cid]
    /\ calls' = <<>> /\ classified' = <<>>
    /\ replies' = <<"action_cancelled">>
    /\ NoHistoryIO /\ NoInvalidation
    /\ UNCHANGED <<now, timers, issued, handlers, confirmedRuns, actionHistory, flowVars>>

----------------------------------------------------------------------------
(* The confirmation store and its two callbacks *)

AllConfirmButtons == UNION {ConfirmButtons(u) : u \in Users}

\* a caller of the store creates a confirmation: a bulk completion with its preview
\* list, or an action type executeConfirmedAction has no case for
CreateConfirmationCall(u, a, items) ==
    /\ (a = "complete_all_events" <=> items # <<>>)
    /\ createConfirmation(u, a, items)

NextConfirm ==
    \* the clock advances by 1 ms or by the whole timeout
    \/ \E d \in {1, CONFIRMATION_TIMEOUT} : Tick(d)
    \/ \E tm \in timers : TimerFires(tm)
    \/ \E u \in Users, a \in {"complete_all_events", "trello_archive_all"},
          items \in {<<>>, CalendarEvents} :
          CreateConfirmationCall(u, a, items)
    \/ \E i \in 1..MaxInputs, u \in Users, cid \in AllConfirmButtons : ConfirmYesArrives(i, u, cid)
    \/ \E i \in 1..MaxInputs, failAt \in 0..Len(CalendarEvents), rnd \in RandomSuffixes :
          ConfirmYesResumes(i, failAt, rnd)
    \/ \E u \in Users, cid \in AllConfirmButtons : ConfirmNo(u, cid)

SpecConfirm == Init /\ [][NextConfirm]_vars

----------------------------------------------------------------------------
(* Claims on the confirmation store *)

\* what getPendingConfirmation would return for u now: the stored confirmation
\* (an entry past its expiry counts as not stored: the next read evicts it)
Stored(u) == getPendingConfirmation(pendingConfirmations, u, now)

StoredNext(u) == getPendingConfirmation(pendingConfirmations', u, now')

ArrivesAt(i) == handlers[i] = Idle /\ handlers'[i] # Idle
ResumesAt(i) == handlers[i] # Idle /\ handlers'[i] = Idle

\* C1: a confirm_yes callback whose id is not the id of the stored confirmation, or
\* that arrives when none is stored, executes nothing: the stored confirmation, the
\* action history and the executed actions stay as they were, no remote call is
\* issued, and the user is told that the confirmation expired or was handled.
C1_StaleAcceptRejected ==
    [][\A i \in 1..MaxInputs :
          /\ (ArrivesAt(i) /\ handlers'[i].kind = "confirm_yes") =>
                LET u == handlers'[i].userId
                    stale == \A c \in Stored(u) : c.id # handlers'[i].confirmationId
                IN  stale =>
                      /\ \A c \in handlers'[i].pending :
                            c.id # handlers'[i].confirmationId
                      /\ StoredNext(u) = Stored(u)
                      /\ UNCHANGED <<actionHistory, confirmedRuns>>
                      /\ calls' = <<>>
          /\ (ResumesAt(i) /\ handlers[i].kind = "confirm_yes") =>
                LET u == handlers[i].userId
                    stale == \A c \in handlers[i].pending :
                                c.id # handlers[i].confirmationId
                IN  stale =>
                      /\ StoredNext(u) = Stored(u)
                      /\ UNCHANGED <<pendingConfirmations, actionHistory, confirmedRuns>>
                      /\ calls' = <<>>
                      /\ replies' = <<"confirmation_expired">>
      ]_vars

\* C1 witness: a callback for an earlier confirmation was answered as expired while
\* another, newer confirmation is stored and still pending
C1_Witness ==
    /\ update.handler = "confirm_yes"
    /\ update.phase = "resume"
    /\ replies = <<"confirmation_expired">>
    /\ Stored(update.userId) # {}
    /\ \A c \in Stored(update.userId) : c.id # update.confirmationId

\* C2: a confirmation created at T is returned before T + 2 minutes and absent at
\* or after T + 2 minutes: no accept that arrives at or after T + 2 minutes gets it.
C2_AbsentAtTimeout ==
    [][\A i \in 1..MaxInputs :
          (ArrivesAt(i) /\ handlers'[i].kind = "confirm_yes") =>
             \A c \in handlers'[i].pending : now < c.createdAt + CONFIRMATION_TIMEOUT
      ]_vars

\* C3: a confirm_no callback whose id is not the id of the stored confirmation is
\* rejected: the stored confirmation stays pending.
C3_StaleRejectIgnored ==
    [][(update'.handler = "confirm_no") =>
          LET u == update'.userId IN
          (\A c \in Stored(u) : c.id # update'.confirmationId) => StoredNext(u) = Stored(u)
      ]_vars

\* C5: an accepted confirmation is executed at most once: an id is executed no more
\* often than a confirmation with that id was created for the user.
C5_ExecutedAtMostOnce ==
    \A u \in Users : \A k \in 1..Len(confirmedRuns[u]) :
        Count(confirmedRuns[u], confirmedRuns[u][k]) <= Count(issued[u], confirmedRuns[u][k])

----------------------------------------------------------------------------
(* Callbacks that open a text follow-up.  The buttons are those of earlier replies: *)
(* the edit menu of an event, the suggestions under a new card, a memory entry.     *)

\* the frame of a handler that runs in one piece and touches only the session
FlowStep(u, desc, newSession, newCalls, newReplies) ==
    /\ inputs < MaxFlowInputs
    /\ inputs' = inputs + 1
    /\ session' = [session EXCEPT ![u] = newSession]
    /\ UNCHANGED <<users, allowedAt>>
    /\ update' = desc
    /\ calls' = RemoteCalls(newCalls)
    /\ invalidated' = Invalidations(newCalls)
    /\ classified' = <<>>
    /\ replies' = newReplies
    /\ NoHistoryIO
    /\ UNCHANGED <<now, pendingConfirmations, timers, issued, handlers, confirmedRuns,
                   actionHistory, deleteButtons, conflictPrompts>>

Button(name, u, id) == [handler |-> name, userId |-> u, id |-> id]

\* button -> the field it asks for
EventEditButtons ==
    {<<"event_edit_time", "time">>, <<"event_edit_title", "summary">>,
     <<"event_edit_location", "location">>}

\* bot.action(/event_edit_time:(.+)/), /event_edit_title:(.+)/, /event_edit_location:(.+)/
EventEdit(u, eventId, b) ==
    /\ b \in EventEditButtons
    /\ FlowStep(u, Button(b[1], u, eventId),
                [session[u] EXCEPT !.pendingEventUpdate =
                                       {[id |-> eventId, field |-> b[2]]}],
                <<>>, <<"ask_" \o b[2]>>)

\* button -> the action it asks a value for
SuggestTrelloButtons ==
    {<<"suggest_trello_checklist", "add_checklist">>, <<"suggest_trello_due", "set_due">>,
     <<"suggest_trello_desc", "set_desc">>, <<"suggest_trello_label", "add_label">>}

\* bot.action(/suggest_trello_checklist:(.+)/), _due, _desc, _label
SuggestTrello(u, cardId, b) ==
    /\ b \in SuggestTrelloButtons
    /\ FlowStep(u, Button(b[1], u, cardId),
                [session[u] EXCEPT !.pendingTrelloUpdate =
                                       {[id |-> cardId, action |-> b[2]]}],
                <<>>, <<"ask_" \o b[2]>>)

\* bot.action(/kb_update:(.+)/)
KbUpdate(u, id) ==
    /\ id \in KbIds
    /\ FlowStep(u, Button("kb_update", u, id),
                [session[u] EXCEPT !.pendingKBUpdate = {id}],
                <<>>, <<"ask_value">>)

----------------------------------------------------------------------------
(* Callbacks of the conflict prompt.  The buttons carry no id of the prompt; the  *)
(* input names the prompt (the k-th shown to the user) whose button was pressed.  *)
(* A button stays pressable: a press made before the handler edited the message   *)
(* may arrive after it, and the message of a replaced prompt is never edited.     *)

\* a proposed event as the classifier returns it, and the slots checkConflicts suggests
FirstProposal == [tipo |-> "create_event", summary |-> "Reuniao", start |-> "T14:00"]
Suggestion(a, b) == [startISO |-> a, endISO |-> b]

ClearConflict(sess) == [sess EXCEPT !.pendingEvent = {}, !.conflictSuggestions = {}]

PromptButton(name, u, k) == [handler |-> name, userId |-> u, prompt |-> k]

\* bot.action('conflict_force'); ok: googleService.createEvent succeeds
ConflictForce(u, k, ok) ==
    /\ k \in 1..Len(conflictPrompts[u])
    /\ LET sess == session[u] IN
       IF sess.pendingEvent = {}
       THEN /\ ok
            /\ FlowStep(u, PromptButton("conflict_force", u, k), sess, <<>>,
                        <<"event_data_lost">>)
       ELSE LET intent == CHOOSE e \in sess.pendingEvent : TRUE
                create == GoogleCall("createEvent", intent.summary, "start", intent.start,
                                     "conflict_force")
            IN  IF ok
                THEN FlowStep(u, PromptButton("conflict_force", u, k), ClearConflict(sess),
                              <<create, Invalidate("events", "conflict_force")>>,
                              <<"scheduled_with_conflict">>)
                ELSE FlowStep(u, PromptButton("conflict_force", u, k), sess,
                              <<create>>, <<"error_creating_event">>)

\* bot.action('conflict_cancel')
ConflictCancel(u, k) ==
    /\ k \in 1..Len(conflictPrompts[u])
    /\ FlowStep(u, PromptButton("conflict_cancel", u, k), ClearConflict(session[u]),
                <<>>, <<"event_not_created">>)

\* bot.action(/conflict_accept:(\d+)/); idx is the index in the callback data, from 0
ConflictAccept(u, k, idx, ok) ==
    /\ k \in 1..Len(conflictPrompts[u])
    /\ idx < conflictPrompts[u][k]
    /\ LET sess == session[u]
           desc == [handler |-> "conflict_accept", userId |-> u, prompt |-> k,
                    index |-> idx]
       IN
       IF sess.pendingEvent = {} \/ sess.conflictSuggestions = {}
       THEN /\ ok
            /\ FlowStep(u, desc, sess, <<>>, <<"event_data_lost">>)
       ELSE LET intent == CHOOSE e \in sess.pendingEvent : TRUE
                list == CHOOSE l \in sess.conflictSuggestions : TRUE
            IN  IF idx + 1 > Len(list)
                THEN /\ ok
                     /\ FlowStep(u, desc, sess, <<>>, <<"invalid_suggestion">>)
                ELSE LET create == GoogleCall("createEvent", intent.summary, "start",
                                              list[idx + 1].startISO, "conflict_accept")
                     IN  IF ok
                         THEN FlowStep(u, desc, ClearConflict(sess),
                                       <<create, Invalidate("events", "conflict_accept")>>,
                                       <<"scheduled">>)
                         ELSE FlowStep(u, desc, sess, <<create>>,
                                       <<"error_creating_event">>)

----------------------------------------------------------------------------
(* Callbacks of the card deletion prompt *)

\* bot.action(/trello_confirm_delete:(.+)/); ok: trelloService.deleteCard succeeds
TrelloConfirmDelete(u, cardId, ok) ==
    /\ cardId \in deleteButtons[u]
    /\ LET delete == TrelloCall("deleteCard", cardId, "card", cardId,
                                "trello_confirm_delete")
       IN  IF ok
           THEN FlowStep(u, Button("trello_confirm_delete", u, cardId),
                         [session[u] EXCEPT !.pendingTrelloDelete = {}],
                         <<delete, Invalidate("trello", "trello_confirm_delete")>>,
                         <<"card_deleted">>)
           ELSE FlowStep(u, Button("trello_confirm_delete", u, cardId), session[u],
                         <<delete>>, <<"error_deleting_card">>)

\* bot.action(/trello_cancel_delete:(.+)/)
TrelloCancelDelete(u, cardId) ==
    /\ cardId \in deleteButtons[u]
    /\ FlowStep(u, Button("trello_cancel_delete", u, cardId),
                [session[u] EXCEPT !.pendingTrelloDelete = {}],
                <<>>, <<"card_kept">>)

----------------------------------------------------------------------------
(* bot.on('text'): the state machine of pending follow-ups *)

Texts == {"cancelar", "Voltar", "25/03/2026", "Red", "Sala 3"}

\* String.prototype.toLowerCase on the texts and label names of the model
Lower(t) ==
    CASE t = "Voltar" -> "voltar"
      [] t = "Red" -> "red"
      [] t = "Urgente" -> "urgente"
      [] OTHER -> t


\* LuxonDT.fromISO(text).isValid, then fromFormat(text.trim(), 'dd/MM/yyyy') and
\* fromFormat(text.trim(), 'dd-MM-yyyy'), on the texts of the model
ParsesAsDue(t) ==
    LET ValidISO == FALSE
        ValidSlashDate == t = "25/03/2026"
        ValidDashDate == FALSE
    IN  ValidISO \/ ValidSlashDate \/ ValidDashDate

\* labels.find(l => name or color equals the text, case-insensitively)
MatchingLabels(t) ==
    \* the labels trelloService.getLabels returns
    {l \in {[id |-> "l1", name |-> "Urgente", color |-> "red"]} : Lower(l.name) = Lower(t) \/ Lower(l.color) = Lower(t)}

\* What a collaborator does with a call: "ok" it succeeds; "fail" it throws;
\* "absent" it succeeds without a result (no such memory entry, no start understood).
Outcomes == {"ok", "fail", "absent"}

Result(sess, cs, cl, rs) == [session |-> sess, calls |-> cs, classified |-> cl, replies |-> rs]

\* a variant of the first branch that ends every pending follow-up of the user
KBFollowUp_ClearsAll(sess, text, r) ==
    LET id == CHOOSE k \in sess.pendingKBUpdate : TRUE IN
    Result([sess EXCEPT !.pendingKBUpdate = {}, !.pendingTrelloUpdate = {},
                        !.pendingEventUpdate = {}],
           <<KnowledgeCall("updateInfo", id, text, "pendingKBUpdate")>>, <<>>,
           <<CASE r = "ok" -> "info_updated"
               [] r = "absent" -> "info_not_found"
               [] OTHER -> "error_updating_info">>)

\* 1. if (ctx.session?.pendingKBUpdate)
KBFollowUp(sess, text, r) ==
    LET id == CHOOSE k \in sess.pendingKBUpdate : TRUE IN
    Result([sess EXCEPT !.pendingKBUpdate = {}],
           <<KnowledgeCall("updateInfo", id, text, "pendingKBUpdate")>>, <<>>,
           <<CASE r = "ok" -> "info_updated"
               [] r = "absent" -> "info_not_found"
               [] OTHER -> "error_updating_info">>)

\* 3. if (ctx.session?.pendingTrelloUpdate)
TrelloFollowUp(sess, text, r) ==
    LET p == CHOOSE x \in sess.pendingTrelloUpdate : TRUE
        cleared == [sess EXCEPT !.pendingTrelloUpdate = {}]
        site == "pendingTrelloUpdate"
        \* scheduler.invalidateCache('trello') ends the try block: every branch that
        \* neither throws nor returns reaches it
        done(call, reply) ==
            IF r = "ok" THEN Result(cleared, <<call, Invalidate("trello", site)>>, <<>>,
                                    <<reply>>)
            ELSE Result(cleared, <<call>>, <<>>, <<"error_updating_card">>)
    IN  CASE p.action = "add_checklist" ->
               done(TrelloCall("addChecklist", p.id, "items", <<text>>, site),
                    "checklist_added")
          [] p.action = "set_due" ->
               IF ~ParsesAsDue(text)
               THEN Result(cleared, <<>>, <<>>, <<"invalid_date_format">>)
               ELSE \* dueDate.toISO() of the one text that parses, in America/Sao_Paulo
                    done(TrelloCall("updateCard", p.id, "due",
                                    "2026-03-25T00:00:00.000-03:00", site), "due_set")
          [] p.action = "set_desc" ->
               done(TrelloCall("updateCard", p.id, "desc", text, site), "desc_updated")
          [] OTHER ->      \* add_label: getLabels ("fail": it throws), then addLabel
                           \* when a label matches ("absent": addLabel throws)
               IF r = "fail"
               THEN Result(cleared, <<>>, <<>>, <<"error_updating_card">>)
               ELSE IF MatchingLabels(text) = {}
               THEN Result(cleared, <<Invalidate("trello", site)>>, <<>>,
                           <<"label_not_found">>)
               ELSE LET l == CHOOSE x \in MatchingLabels(text) : TRUE
                    IN  done(TrelloCall("addLabel", p.id, "label", l.id, site),
                             "label_added")

\* 4. if (ctx.session?.pendingEventUpdate); for the time field r is what the
\* classifier makes of the text, ok what updateEvent does
EventFollowUp(sess, text, r, ok) ==
    LET p == CHOOSE x \in sess.pendingEventUpdate : TRUE
        cleared == [sess EXCEPT !.pendingEventUpdate = {}]
        site == "pendingEventUpdate"
        ask == [text |-> "alterar horario para " \o text, purpose |-> "time_edit"]
        \* scheduler.invalidateCache('events') ends the try block
        updated(call) == IF ok THEN <<call, Invalidate("events", site)>> ELSE <<call>>
    IN  CASE p.field = "summary" ->
               Result(cleared,
                      updated(GoogleCall("updateEvent", p.id, "summary", text, site)),
                      <<>>, <<IF ok THEN "title_updated" ELSE "error_updating_event">>)
          [] p.field = "location" ->
               Result(cleared,
                      updated(GoogleCall("updateEvent", p.id, "location", text, site)),
                      <<>>, <<IF ok THEN "location_updated" ELSE "error_updating_event">>)
          [] OTHER ->      \* time
               IF Lower(text) = "cancelar" \/ Lower(text) = "voltar"
               THEN Result(cleared, <<>>, <<>>, <<"time_edit_cancelled">>)
               ELSE CASE r = "ok" ->
                           Result(cleared,
                                  updated(GoogleCall("updateEvent", p.id, "start",
                                                     "T15:00", site)),  \* the start interpretMessage returns
                                  <<ask>>,
                                  <<IF ok THEN "time_updated" ELSE "error_updating_event">>)
                      [] r = "absent" ->
                           Result(sess, <<>>, <<ask>>, <<"time_not_understood">>)
                      [] OTHER ->
                           Result(cleared, <<>>, <<ask>>, <<"error_updating_event">>)

----------------------------------------------------------------------------
(* processIntent: the branches for events and for card deletion.  An intent case is *)
(* the classified intent together with what the collaborators answer while it is    *)
(* processed.                                                                       *)

\* the events googleService.listEvents returns; done: the summary starts with the mark
Listed(id, summary, done) == [id |-> id, summary |-> summary, done |-> done]

IntentCases ==
    [tipo : {"create_event"}, intent : {FirstProposal, [tipo |-> "create_event", summary |-> "Almoco",
                                       start |-> "T12:00"]},
     check : {"conflict"},
     suggestions : {<<>>, <<Suggestion("T16:00", "T17:00"), Suggestion("T17:00", "T18:00")>>}]
    \cup [tipo : {"create_event"}, intent : {FirstProposal}, check : {"fail"}]
    \cup {c \in [tipo : {"create_event"}, intent : {FirstProposal}, check : {"free"},
                 valid : BOOLEAN, ok : BOOLEAN] : c.valid \/ c.ok}
    \cup [tipo : {"complete_all_events"}, list : {"fail"}]
    \cup {c \in [tipo : {"complete_all_events"}, list : {"ok"}, events : {<<>>, <<Listed("e1", "Reuniao", TRUE)>>,
                           <<Listed("e1", "Reuniao", FALSE),
                             Listed("e2", "Dentista", FALSE)>>},
                 failAt : 0..1] : c.failAt = 0 \/ Len(c.events) > 1}
    \cup {c \in [tipo : {"delete_event"}, found : {{}, {"e1"}}, ok : BOOLEAN] :
            c.found # {} \/ c.ok}
    \cup [tipo : {"trello_delete"}, found : {{}} \cup {{c} : c \in CardIds}]
    \cup [tipo : {"chat"}]

\* events.filter(e => !e.summary.startsWith('✅'))
RECURSIVE NotDone(_)
NotDone(events) ==
    IF events = <<>> THEN <<>>
    ELSE IF Head(events).done THEN NotDone(Tail(events))
    ELSE <<Head(events)>> \o NotDone(Tail(events))

\* the world one message handler works on; threw: the last intent threw
World(sess, cs, rs, buttons, prompts, threw) ==
    [session |-> sess, calls |-> cs, replies |-> rs, buttons |-> buttons,
     prompts |-> prompts, threw |-> threw]

Says(w, reply) == [w EXCEPT !.replies = Append(@, reply), !.threw = FALSE]
Throws(w) == [w EXCEPT !.threw = TRUE]

\* getConflictButtons: one conflict_accept button for each of the first three suggestions
AcceptButtons(suggestions) == IF Len(suggestions) < 3 THEN Len(suggestions) ELSE 3

\* smartScheduling.checkConflicts(intent): it throws when fetching the existing
\* commitments fails, and reports a conflict with its suggestions otherwise
checkConflicts(c) ==
    [threw |-> c.check = "fail",
     hasConflict |-> c.check = "conflict",
     suggestions |-> IF c.check = "conflict" THEN c.suggestions ELSE <<>>]

\* googleService.createEvent(intent) issued by processIntent
CreateCall(intent) ==
    GoogleCall("createEvent", intent.summary, "start", intent.start, "create_event")

\* the branch after the conflict check found no conflict
CreateAfterCheck(w, c) ==
    IF ~c.valid THEN Says(w, "cannot_schedule")
    ELSE LET called == [w EXCEPT !.calls = Append(@, CreateCall(c.intent))]
         IN  IF c.ok
             THEN Says([called EXCEPT !.calls =
                           Append(@, Invalidate("events", "create_event"))],
                       "scheduled")
             ELSE Throws(called)

\* the branch after the conflict check found a conflict
StoreProposal(w, c, suggestions) ==
    Says([w EXCEPT !.session.pendingEvent = {c.intent},
                   !.session.conflictSuggestions = {suggestions},
                   !.prompts = Append(@, AcceptButtons(suggestions))],
         "conflict_prompt")

\* a variant that stores the proposal of a conflict and creates the event all the same
CreateEventIntent_CreatesOnConflict(w, c) ==
    LET conflictCheck == checkConflicts(c) IN
    IF conflictCheck.threw THEN Throws(w)
    ELSE IF conflictCheck.hasConflict
    THEN StoreProposal([w EXCEPT !.calls = Append(@, CreateCall(c.intent))], c,
                       conflictCheck.suggestions)
    ELSE CreateAfterCheck(w, c)

\* a variant that catches a failing conflict check and goes on as without conflict
CreateEventIntent_IgnoresCheckFailure(w, c) ==
    LET conflictCheck == checkConflicts(c) IN
    IF conflictCheck.threw
    THEN Says([w EXCEPT !.calls = Append(@, CreateCall(c.intent))], "scheduled")
    ELSE IF conflictCheck.hasConflict
    THEN StoreProposal(w, c, conflictCheck.suggestions)
    ELSE CreateAfterCheck(w, c)

\* if (intent.tipo === 'create_event' || intent.tipo === 'evento')
CreateEventIntent(w, c) ==
    LET conflictCheck == checkConflicts(c) IN
    IF conflictCheck.threw THEN Throws(w)
    ELSE IF conflictCheck.hasConflict
    THEN StoreProposal(w, c, conflictCheck.suggestions)
    ELSE CreateAfterCheck(w, c)

\* else if (intent.tipo === 'complete_all_events')
CompleteAllIntent(w, c) ==
    IF c.list = "fail" THEN Throws(w)
    ELSE IF c.events = <<>> THEN Says(w, "no_events")
    ELSE LET pendingEvents == NotDone(c.events)
             all == CompleteAll(pendingEvents, "complete_all_events")
         IN  IF pendingEvents = <<>> THEN Says(w, "all_events_done")
             ELSE IF c.failAt = 0
             THEN Says(Says([w EXCEPT !.calls =
                                 @ \o all \o <<Invalidate("events", "complete_all_events")>>],
                            "marking_events"),
                       "events_completed")
             ELSE Throws(Says([w EXCEPT !.calls = @ \o
                                   SubSeq(all, 1, IF c.failAt < Len(all) THEN c.failAt
                                                  ELSE Len(all))],
                              "marking_events"))

\* else if (intent.tipo === 'delete_event')
DeleteEventIntent(w, c) ==
    IF c.found = {} THEN Says(w, "event_not_found")
    ELSE LET id == CHOOSE e \in c.found : TRUE
             called == [w EXCEPT !.calls = Append(@,
                           GoogleCall("deleteEvent", id, "event", id, "delete_event"))]
         IN  IF c.ok
             THEN Says([called EXCEPT !.calls =
                           Append(@, Invalidate("events", "delete_event"))],
                       "event_deleted")
             ELSE Throws(called)

\* else if (intent.tipo === 'trello_delete')
TrelloDeleteIntent(w, c) ==
    IF c.found = {} THEN Says(w, "card_not_found")
    ELSE LET id == CHOOSE x \in c.found : TRUE
         IN  Says([w EXCEPT !.session.pendingTrelloDelete =
                                {[id |-> id,
                                  name |-> IF id = "c1" THEN "01. Contrato"
                                           ELSE "02. Proposta"]},
                            !.buttons = @ \cup {id}],
                  "confirm_card_delete")

\* the intents that change a card found by findTrelloCardByQuery, with what the
\* board answers: found: the card the query resolves to; ok: the change succeeds
CardCases ==
    {c \in [tipo : {"trello_archive", "trello_add_comment"}, found : {{}, {"c1"}},
            ok : BOOLEAN] : c.found # {} \/ c.ok}
    \cup {c \in [tipo : {"trello_add_label"}, found : {{"c1"}}, label : {"Red", "Blue"},
                 ok : BOOLEAN] : MatchingLabels(c.label) # {} \/ c.ok}
    \cup {c \in [tipo : {"trello_add_member"}, found : {{"c1"}},
                 member : {{}, {"m1"}}, ok : BOOLEAN] :
            c.member # {} \/ c.ok}

\* the end of a branch that changes a card: the call, then (when the branch has
\* one) the cache invalidation, then the reply; a call that fails throws
ChangeCard(w, c, call, invalidation, reply) ==
    LET called == [w EXCEPT !.calls = Append(@, call)]
    IN  IF c.ok THEN Says([called EXCEPT !.calls = @ \o invalidation], reply)
        ELSE Throws(called)

\* else if (intent.tipo === 'trello_archive')
TrelloArchiveIntent(w, c) ==
    IF c.found = {} THEN Says(w, "card_not_found")
    ELSE LET id == CHOOSE x \in c.found : TRUE
         IN  ChangeCard(w, c, TrelloCall("updateCard", id, "closed", TRUE, c.tipo),
                        <<Invalidate("trello", c.tipo)>>, "card_archived")

\* else if (intent.tipo === 'trello_add_comment')
TrelloAddCommentIntent(w, c) ==
    IF c.found = {} THEN Says(w, "card_not_found")
    ELSE LET id == CHOOSE x \in c.found : TRUE
         IN  ChangeCard(w, c, TrelloCall("addComment", id, "comment", "texto", c.tipo),
                        <<>>, "comment_added")

\* else if (intent.tipo === 'trello_add_label')
TrelloAddLabelIntent(w, c) ==
    IF c.found = {} THEN Says(w, "card_not_found")
    ELSE IF MatchingLabels(c.label) = {} THEN Says(w, "label_not_found")
    ELSE LET id == CHOOSE x \in c.found : TRUE
             l == CHOOSE x \in MatchingLabels(c.label) : TRUE
         IN  ChangeCard(w, c, TrelloCall("addLabel", id, "label", l.id, c.tipo),
                        <<>>, "label_added")

\* else if (intent.tipo === 'trello_add_member')
TrelloAddMemberIntent(w, c) ==
    IF c.found = {} THEN Says(w, "card_not_found")
    ELSE IF c.member = {} THEN Says(w, "member_not_found")
    ELSE LET id == CHOOSE x \in c.found : TRUE
             m == CHOOSE x \in c.member : TRUE
         IN  ChangeCard(w, c, TrelloCall("addMember", id, "member", m, c.tipo),
                        <<>>, "member_added")

processIntent(w, c) ==
    CASE c.tipo = "create_event" -> CreateEventIntent(w, c)
      [] c.tipo = "complete_all_events" -> CompleteAllIntent(w, c)
      [] c.tipo = "delete_event" -> DeleteEventIntent(w, c)
      [] c.tipo = "trello_delete" -> TrelloDeleteIntent(w, c)
      [] c.tipo = "trello_archive" -> TrelloArchiveIntent(w, c)
      [] c.tipo = "trello_add_comment" -> TrelloAddCommentIntent(w, c)
      [] c.tipo = "trello_add_label" -> TrelloAddLabelIntent(w, c)
      [] c.tipo = "trello_add_member" -> TrelloAddMemberIntent(w, c)
      [] OTHER -> Says(w, "chat_reply")

\* a variant of the loop that gives up at the first intent that throws
RECURSIVE ProcessAll_StopsAtError(_, _)
ProcessAll_StopsAtError(w, batch) ==
    IF batch = <<>> THEN w
    ELSE LET after == processIntent(w, Head(batch))
         IN  IF after.threw THEN Says(after, "problem_processing_intent")
             ELSE ProcessAll_StopsAtError(after, Tail(batch))

\* for (const intent of intents) { try { await processIntent } catch { reply } }
RECURSIVE ProcessAll(_, _)
ProcessAll(w, batch) ==
    IF batch = <<>> THEN w
    ELSE LET after == processIntent(w, Head(batch))
             caught == IF after.threw THEN Says(after, "problem_processing_intent")
                       ELSE after
         IN  ProcessAll(caught, Tail(batch))

----------------------------------------------------------------------------
(* bot.on('text') as one action *)

\* what interpretMessage returns for a fresh message: one intent or an array
Batches ==
    {<<c>> : c \in IntentCases}
    \cup {<<[tipo |-> "trello_delete", found |-> {"c1"}],
             [tipo |-> "create_event", intent |-> FirstProposal, check |-> "conflict",
              suggestions |-> <<>>]>>,
           <<[tipo |-> "complete_all_events", list |-> "fail"],
             [tipo |-> "delete_event", found |-> {"e1"}, ok |-> TRUE]>>}

TextUpdate(u, text) == [handler |-> "text", userId |-> u, text |-> text]

\* the frame of the message handler
TextStep(u, text, sess, cs, cl, rs, buttons, prompts) ==
    /\ inputs < MaxFlowInputs
    /\ inputs' = inputs + 1
    /\ session' = [session EXCEPT ![u] = sess]
    /\ deleteButtons' = [deleteButtons EXCEPT ![u] = buttons]
    /\ conflictPrompts' = [conflictPrompts EXCEPT ![u] = prompts]
    /\ UNCHANGED <<users, allowedAt>>
    /\ update' = TextUpdate(u, text)
    /\ calls' = RemoteCalls(cs)
    /\ invalidated' = Invalidations(cs)
    /\ classified' = cl
    /\ replies' = rs
    /\ NoHistoryIO
    /\ UNCHANGED <<now, pendingConfirmations, timers, issued, handlers, confirmedRuns,
                   actionHistory>>

FollowUpStep(u, text, res) ==
    TextStep(u, text, res.session, res.calls, res.classified, res.replies,
             deleteButtons[u], conflictPrompts[u])

\* the message reaches interpretMessage as a fresh command; interp is what it
\* returns, {} when it throws
FreshText(u, text, interp) ==
    LET ask == <<[text |-> text, purpose |-> "fresh",
                  intents |-> IF interp = {} THEN <<>> ELSE CHOOSE b \in interp : TRUE]>>
        start == World(session[u], <<>>, <<"processing">>, deleteButtons[u],
                       conflictPrompts[u], FALSE)
    IN  IF interp = {}
        THEN TextStep(u, text, session[u], <<>>, ask, <<"processing", "technical_error">>,
                      deleteButtons[u], conflictPrompts[u])
        ELSE LET w == ProcessAll(start, CHOOSE b \in interp : TRUE)
             IN  TextStep(u, text, w.session, w.calls, ask, w.replies, w.buttons, w.prompts)

OnText(u, text) ==
    /\ text \in Texts
    /\ LET sess == session[u] IN
       IF sess.pendingKBUpdate # {}
       THEN \E r \in Outcomes : FollowUpStep(u, text, KBFollowUp(sess, text, r))
       ELSE IF sess.pendingTrelloUpdate # {}
       THEN \E r \in Outcomes : FollowUpStep(u, text, TrelloFollowUp(sess, text, r))
       ELSE IF sess.pendingEventUpdate # {}
       THEN \E r \in Outcomes, ok \in BOOLEAN :
               FollowUpStep(u, text, EventFollowUp(sess, text, r, ok))
       ELSE \E interp \in {{}} \cup {{b} : b \in Batches} : FreshText(u, text, interp)

NextFlow ==
    \/ \E u \in FlowUsers, e \in {"e1", "e2"}, b \in EventEditButtons : EventEdit(u, e, b)
    \/ \E u \in FlowUsers, c \in CardIds, b \in SuggestTrelloButtons : SuggestTrello(u, c, b)
    \/ \E u \in FlowUsers, k \in KbIds : KbUpdate(u, k)
    \/ \E u \in FlowUsers, k \in 1..MaxFlowInputs, ok \in BOOLEAN : ConflictForce(u, k, ok)
    \/ \E u \in FlowUsers, k \in 1..MaxFlowInputs : ConflictCancel(u, k)
    \/ \E u \in FlowUsers, k \in 1..MaxFlowInputs, idx \in 0..1, ok \in BOOLEAN :
          ConflictAccept(u, k, idx, ok)
    \/ \E u \in FlowUsers, c \in CardIds, ok \in BOOLEAN : TrelloConfirmDelete(u, c, ok)
    \/ \E u \in FlowUsers, c \in CardIds : TrelloCancelDelete(u, c)
    \/ \E u \in FlowUsers, text \in Texts : OnText(u, text)

SpecFlow == Init /\ [][NextFlow]_vars

----------------------------------------------------------------------------
(* The dispatcher by itself: fresh messages over every modelled intent, and the  *)
(* callbacks of the prompts the dispatcher shows.                                *)

\* what interpretMessage returns: one intent of any modelled kind, or several
DispatchBatches ==
    Batches
    \cup {<<c>> : c \in CardCases}
    \cup {<<[tipo |-> "trello_add_comment", found |-> {"c1"}, ok |-> FALSE],
             [tipo |-> "trello_archive", found |-> {"c1"}, ok |-> TRUE]>>,
           <<[tipo |-> "delete_event", found |-> {"e1"}, ok |-> FALSE],
             [tipo |-> "create_event", intent |-> FirstProposal, check |-> "fail"],
             [tipo |-> "chat"]>>}

\* a message that reaches the fresh command path and is classified as batch
Dispatch(u, text, batch) ==
    /\ batch \in DispatchBatches
    /\ session[u].pendingKBUpdate = {}
    /\ session[u].pendingTrelloUpdate = {}
    /\ session[u].pendingEventUpdate = {}
    /\ FreshText(u, text, {batch})

NextDispatch ==
    \/ \E u \in FlowUsers, b \in DispatchBatches : Dispatch(u, "Sala 3", b)
    \/ \E u \in FlowUsers, k \in 1..MaxFlowInputs, ok \in BOOLEAN : ConflictForce(u, k, ok)
    \/ \E u \in FlowUsers, k \in 1..MaxFlowInputs, idx \in 0..1, ok \in BOOLEAN :
          ConflictAccept(u, k, idx, ok)
    \/ \E u \in FlowUsers, c \in CardIds, ok \in BOOLEAN : TrelloConfirmDelete(u, c, ok)

SpecDispatch == Init /\ [][NextDispatch]_vars

----------------------------------------------------------------------------
(* Properties of the flow state and of the dispatch of messages *)

\* a call that completes an event in bulk or deletes an event or a card for good
Risky(c) ==
    \/ c.op = "updateEvent" /\ c.field = "summary_done"
    \/ c.op = "deleteEvent"
    \/ c.op = "deleteCard"

\* C4: bulk completion and permanent deletion are executed only by the handler of an
\* accepted confirmation, never by the message handler from a classified intent.
C4_RiskyOnlyAfterConfirmation ==
    \A k \in 1..Len(calls) :
        Risky(calls[k]) => update.handler \in {"confirm_yes", "trello_confirm_delete"}

\* the button pressed in this step belongs to a prompt that is not the user's current one
StaleDeleteButton ==
    /\ update'.handler = "trello_confirm_delete"
    /\ \A p \in session[update'.userId].pendingTrelloDelete : p.id # update'.id
StaleConflictButton ==
    /\ update'.handler \in {"conflict_force", "conflict_accept"}
    /\ \/ session[update'.userId].pendingEvent = {}
       \/ update'.prompt # Len(conflictPrompts[update'.userId])

ExpiredAnswers == {<<"event_data_lost">>, <<"confirmation_expired">>}

\* C6: a trello_confirm_delete, conflict_force or conflict_accept button of a prompt
\* that is no longer the user's current one issues no remote call and is answered as
\* expired.
C6_StaleButtonDoesNothing ==
    [][(StaleDeleteButton \/ StaleConflictButton) =>
          calls' = <<>> /\ replies' \in ExpiredAnswers
      ]_vars

\* the number of flow-state slots set in a session; pendingEvent and
\* conflictSuggestions are one slot
SlotsSet(sess) ==
    Cardinality({n \in {"pendingKBUpdate", "pendingTrelloUpdate", "pendingEventUpdate",
                        "pendingEvent", "pendingTrelloDelete"} : sess[n] # {}})
TextSlotsSet(sess) ==
    Cardinality({n \in {"pendingKBUpdate", "pendingTrelloUpdate", "pendingEventUpdate"} :
                    sess[n] # {}})

\* C7: for each user at most one flow-state slot is set.
C7_AtMostOneSlot == \A u \in Users : SlotsSet(session[u]) <= 1

\* C8: the message "cancelar" in a pending text follow-up clears the slot and sends
\* no update to a remote collaborator.
C8_CancelSendsNothing ==
    [][(/\ update'.handler = "text"
        /\ update'.text = "cancelar"
        /\ TextSlotsSet(session[update'.userId]) > 0) =>
          /\ calls' = <<>>
          /\ TextSlotsSet(session'[update'.userId]) <
                TextSlotsSet(session[update'.userId])
      ]_vars

\* the slot the message handler answers (the first set, in its order) takes the text
\* as invalid: a due date that does not parse, a label the board does not have
InvalidAnswer(sess, text) ==
    /\ sess.pendingKBUpdate = {}
    /\ \E p \in sess.pendingTrelloUpdate :
          \/ p.action = "set_due" /\ ~ParsesAsDue(text)
          \/ p.action = "add_label" /\ MatchingLabels(text) = {}

\* C9: an invalid follow-up text (or a time the classifier cannot interpret) issues no
\* remote update and leaves the session as it is, unless the collaborator failed.
C9_InvalidAnswerKeepsSlot ==
    [][(/\ update'.handler = "text"
        /\ \/ InvalidAnswer(session[update'.userId], update'.text)
           \/ replies' = <<"time_not_understood">>
        /\ replies' # <<"error_updating_card">>) =>
          /\ calls' = <<>>
          /\ session'[update'.userId] = session[update'.userId]
      ]_vars

\* C10: while a flow-state slot is set for a user, a text of that user is not sent to
\* the classifier as a fresh command.
C10_NoFreshWhilePending ==
    [][(/\ update'.handler = "text"
        /\ SlotsSet(session[update'.userId]) > 0) =>
          \A k \in 1..Len(classified') : classified'[k].purpose # "fresh"
      ]_vars

\* the text slots in the order the message handler tests them
TextSlots == <<"pendingKBUpdate", "pendingTrelloUpdate", "pendingEventUpdate">>
FirstTextSlot(sess) ==
    TextSlots[CHOOSE i \in 1..3 : /\ sess[TextSlots[i]] # {}
                                  /\ \A j \in 1..(i - 1) : sess[TextSlots[j]] = {}]

\* C11: a text consumed as a follow-up is matched to the first set slot in the order
\* pendingKBUpdate, pendingTrelloUpdate, pendingEventUpdate; its calls are those of
\* that slot, and the session afterwards differs at most by that slot being cleared.
C11_ConsumesOnlyMatchedSlot ==
    [][(/\ update'.handler = "text"
        /\ TextSlotsSet(session[update'.userId]) > 0) =>
          LET sess == session[update'.userId]
              m == FirstTextSlot(sess)
          IN  /\ session'[update'.userId] \in {sess, [sess EXCEPT ![m] = {}]}
              /\ \A k \in 1..Len(calls') : calls'[k].site = m
              /\ \A k \in 1..Len(classified') : classified'[k].purpose # "fresh"
              /\ UNCHANGED <<deleteButtons, conflictPrompts>>
      ]_vars

\* a message was consumed by the knowledge follow-up while an event edit was pending,
\* and the event edit is still pending
C11_Witness ==
    \E u \in Users :
        /\ update = TextUpdate(u, "Sala 3")
        /\ replies = <<"info_updated">>
        /\ session[u].pendingKBUpdate = {}
        /\ session[u].pendingEventUpdate # {}

\* the replies of a step, as a set
Said == {replies'[k] : k \in 1..Len(replies')}
CreateCalls == {k \in 1..Len(calls') : calls'[k].op = "createEvent"}

\* C12: a create_event intent whose conflict check reports a conflict stores the
\* proposal with its suggestions and creates nothing; a stored proposal is created
\* only by conflict_force or conflict_accept, and conflict_cancel clears both slots
\* and creates nothing.
C12_ConflictBlocksCreation ==
    [][LET u == update'.userId IN
       /\ (update'.handler = "text" /\ "conflict_prompt" \in Said) =>
             /\ session'[u].pendingEvent # {}
             /\ session'[u].conflictSuggestions # {}
             /\ \A k \in CreateCalls : \A e \in session'[u].pendingEvent :
                   calls'[k].id # e.summary
       /\ \A k \in CreateCalls :
             \/ update'.handler = "text" /\ calls'[k].site = "create_event"
             \/ /\ update'.handler \in {"conflict_force", "conflict_accept"}
                /\ calls'[k].site = update'.handler
                /\ \E e \in session[u].pendingEvent : calls'[k].id = e.summary
       /\ (update'.handler = "conflict_cancel") =>
             /\ calls' = <<>>
             /\ session'[u].pendingEvent = {}
             /\ session'[u].conflictSuggestions = {}
      ]_vars

\* a proposal stored by a conflict was created by conflict_force
C12_Witness ==
    /\ update.handler = "conflict_force"
    /\ replies = <<"scheduled_with_conflict">>
    /\ Len(calls) = 1
    /\ calls[1].op = "createEvent"

\* the intent is a create_event whose conflict check fails to fetch the commitments
CheckFails(c) == c.tipo = "create_event" /\ c.check = "fail"

\* C13: when the conflict check of a create_event intent fails, the dispatch creates
\* no event for it, stores no proposal, and tells the user that the request failed.
C13_CheckFailurePropagates ==
    [][\A k \in 1..Len(classified') :
          classified'[k].purpose = "fresh" =>
             \A j \in 1..Len(classified'[k].intents) :
                LET c == classified'[k].intents[j]
                    u == update'.userId
                IN  CheckFails(c) =>
                       /\ \A n \in CreateCalls : calls'[n].id # c.intent.summary
                       /\ session'[u].pendingEvent = session[u].pendingEvent
                       /\ session'[u].conflictSuggestions = session[u].conflictSuggestions
                       /\ conflictPrompts'[u] = conflictPrompts[u]
                       /\ "problem_processing_intent" \in Said
      ]_vars

\* a message was classified as a create_event whose conflict check failed
C13_Witness ==
    /\ update.handler = "text"
    /\ Len(classified) = 1
    /\ classified[1].purpose = "fresh"
    /\ Len(classified[1].intents) = 1
    /\ CheckFails(classified[1].intents[1])
    /\ replies = <<"processing", "problem_processing_intent">>
    /\ calls = <<>>

\* C14: for a create_event intent whose conflict check finds no conflict, the
\* dispatch issues the creation whatever the context validation returns.
C14_ValidationNeverBlocks ==
    [][\A k \in 1..Len(classified') :
          classified'[k].purpose = "fresh" =>
             \A j \in 1..Len(classified'[k].intents) :
                LET c == classified'[k].intents[j] IN
                (c.tipo = "create_event" /\ c.check = "free") =>
                   \E n \in CreateCalls : calls'[n].id = c.intent.summary
      ]_vars

\* the intent creates an event: no conflict, the validation passes, createEvent succeeds
Creates(c) == c.tipo = "create_event" /\ c.check = "free" /\ c.valid /\ c.ok

\* C21: every create_event intent that creates an event makes exactly one createEvent
\* call and records one create_event entry for that user, which getLastAction (and
\* so the next undo command) then returns.
C21_CreateRecordsHistory ==
    [][\A k \in 1..Len(classified') :
          classified'[k].purpose = "fresh" =>
             \A j \in 1..Len(classified'[k].intents) :
                LET c == classified'[k].intents[j] IN
                Creates(c) =>
                   /\ Cardinality({n \in CreateCalls :
                                      calls'[n].id = c.intent.summary}) = 1
                   /\ \E a \in getLastAction(actionHistory', update'.userId) :
                         a.type = "create_event" /\ a.timestamp = now'
      ]_vars

\* the scopes in which processing the intent case completes a mutating call
ChangedScopes(c) ==
    CASE c.tipo = "create_event" -> IF Creates(c) THEN {"events"} ELSE {}
      [] c.tipo = "complete_all_events" ->
           IF c.list = "ok" /\ NotDone(c.events) # <<>> /\ c.failAt = 0
           THEN {"events"} ELSE {}
      [] c.tipo = "delete_event" -> IF c.found # {} /\ c.ok THEN {"events"} ELSE {}
      [] c.tipo \in {"trello_archive", "trello_add_comment"} ->
           IF c.found # {} /\ c.ok THEN {"trello"} ELSE {}
      [] c.tipo = "trello_add_label" ->
           IF c.found # {} /\ MatchingLabels(c.label) # {} /\ c.ok THEN {"trello"} ELSE {}
      [] c.tipo = "trello_add_member" ->
           IF c.found # {} /\ c.member # {} /\ c.ok THEN {"trello"} ELSE {}
      [] OTHER -> {}

\* the scopes the step invalidated
Invalidated == {invalidated'[k] : k \in 1..Len(invalidated')}

\* the replies with which a callback reports that its call succeeded
CallbackSuccess == {"scheduled", "scheduled_with_conflict", "card_deleted"}

\* C25: every dispatcher branch and callback that completes a successful mutating
\* call on the calendar or the board invalidates the cache of that scope before it
\* finishes.
C25_MutationInvalidatesCache ==
    [][/\ \A k \in 1..Len(classified') :
             classified'[k].purpose = "fresh" =>
                \A j \in 1..Len(classified'[k].intents) :
                   ChangedScopes(classified'[k].intents[j]) \subseteq Invalidated
       /\ (update'.handler \in {"conflict_force", "conflict_accept",
                                 "trello_confirm_delete"}
            /\ Said \cap CallbackSuccess # {})
             => \A n \in 1..Len(calls') : ScopeOf(calls'[n]) \in Invalidated
      ]_vars

\* processing the intent case raises an error: a collaborator it calls throws
Throwing(c) ==
    CASE c.tipo = "create_event" ->
           c.check = "fail" \/ (c.check = "free" /\ c.valid /\ ~c.ok)
      [] c.tipo = "complete_all_events" ->
           c.list = "fail" \/ (NotDone(c.events) # <<>> /\ c.failAt > 0)
      [] c.tipo = "delete_event" -> c.found # {} /\ ~c.ok
      [] c.tipo \in {"trello_archive", "trello_add_comment"} -> c.found # {} /\ ~c.ok
      [] c.tipo = "trello_add_label" -> MatchingLabels(c.label) # {} /\ ~c.ok
      [] c.tipo = "trello_add_member" -> c.member # {} /\ ~c.ok
      [] OTHER -> FALSE

\* the replies with which the branch of an intent kind ends when nothing throws
AnswersOf(tipo) ==
    CASE tipo = "create_event" -> {"conflict_prompt", "cannot_schedule", "scheduled"}
      [] tipo = "complete_all_events" -> {"no_events", "all_events_done", "events_completed"}
      [] tipo = "delete_event" -> {"event_not_found", "event_deleted"}
      [] tipo = "trello_delete" -> {"card_not_found", "confirm_card_delete"}
      [] tipo = "trello_archive" -> {"card_not_found", "card_archived"}
      [] tipo = "trello_add_comment" -> {"card_not_found", "comment_added"}
      [] tipo = "trello_add_label" -> {"card_not_found", "label_not_found", "label_added"}
      [] tipo = "trello_add_member" -> {"card_not_found", "member_not_found", "member_added"}
      [] OTHER -> {"chat_reply"}

\* the replies of a message handler without its progress notes: one per intent
RECURSIVE Answers(_)
Answers(rs) ==
    IF rs = <<>> THEN <<>>
    ELSE IF Head(rs) \in {"processing", "marking_events"} THEN Answers(Tail(rs))
    ELSE <<Head(rs)>> \o Answers(Tail(rs))

\* the kinds of the intents whose branches issued the calls, in the order of the calls
RECURSIVE Sites(_)
Sites(cs) == IF cs = <<>> THEN <<>> ELSE <<Head(cs).site>> \o Sites(Tail(cs))

\* seq is in the order of the batch: the kinds it names appear at non-decreasing
\* positions of the batch
InBatchOrder(seq, batch) ==
    \E pos \in [1..Len(seq) -> 1..Len(batch)] :
       /\ \A n \in 1..Len(seq) : batch[pos[n]].tipo = seq[n]
       /\ \A n, m \in 1..Len(seq) : n < m => pos[n] <= pos[m]

\* C26: the intents of one message are processed one at a time in array order, and
\* an error raised by one intent is caught and reported for that intent only: every
\* intent of the message, those after a failing one included, gets its own answer,
\* in order, and the calls are issued in the order of the intents.
C26_EveryIntentProcessed ==
    [][\A k \in 1..Len(classified') :
          (classified'[k].purpose = "fresh" /\ classified'[k].intents # <<>>) =>
             LET batch == classified'[k].intents
                 answers == Answers(replies')
             IN  /\ Len(answers) = Len(batch)
                 /\ \A j \in 1..Len(batch) :
                       IF Throwing(batch[j])
                       THEN answers[j] = "problem_processing_intent"
                       ELSE answers[j] \in AnswersOf(batch[j].tipo)
                 /\ calls' # <<>> => InBatchOrder(Sites(calls'), batch)
      ]_vars

\* a message of two intents has just been handled: the first threw and was reported,
\* the second was processed all the same and changed the board
C26_Witness ==
    /\ update.handler = "text"
    /\ Len(classified) = 1
    /\ Len(classified[1].intents) = 2
    /\ Throwing(classified[1].intents[1])
    /\ replies = <<"processing", "problem_processing_intent", "card_archived">>
    /\ Len(calls) = 2
    /\ calls[2].op = "updateCard"

----------------------------------------------------------------------------
(* The action history store by itself: its exported operations applied in any     *)
(* order, from the memory loadHistory builds at process start.                     *)

MaxHistoryOps == 3
SomeData == [count |-> 1]
SomeResult == [eventIds |-> <<"e1">>]

\* the history after n earlier recordings for u1, the k-th at time k - 21
RECURSIVE Recorded(_)
Recorded(n) ==
    IF n = 0 THEN <<>>
    ELSE recordAction(Recorded(n - 1), "u1", "create_event", SomeData, SomeResult,
                      n - (MAX_HISTORY_PER_USER + 1), "r1")


InitHistory ==
    /\ now = 0
    /\ inputs = 0
    /\ pendingConfirmations = <<>>
    /\ timers = {}
    /\ issued = [u \in Users |-> <<>>]
    /\ handlers = [i \in 1..MaxInputs |-> Idle]
    /\ confirmedRuns = [u \in Users |-> <<>>]
    \* the file an earlier process left: none, or one short of full, or full
    /\ historyFile \in {{}, {Stringify(Recorded(MAX_HISTORY_PER_USER - 1))},
                        {Stringify(Recorded(MAX_HISTORY_PER_USER))}}
    /\ actionHistory = loadHistory(historyFile)
    /\ logged = <<>>
    /\ session = [u \in Users |-> EmptySession]
    /\ deleteButtons = [u \in Users |-> {}]
    /\ conflictPrompts = [u \in Users |-> <<>>]
    /\ users = <<>>
    /\ allowedAt = [u \in Users |-> <<>>]
    /\ update = [handler |-> "start"]
    /\ calls = <<>>
    /\ invalidated = <<>>
    /\ classified = <<>>
    /\ replies = <<>>

\* the frame of an operation of the store
HistoryStep(desc, hist, file, log) ==
    /\ inputs < MaxHistoryOps
    /\ inputs' = inputs + 1
    /\ actionHistory' = hist
    /\ historyFile' = file
    /\ logged' = log
    /\ update' = desc
    /\ calls' = <<>> /\ classified' = <<>> /\ replies' = <<>>
    /\ NoInvalidation
    /\ UNCHANGED <<now, pendingConfirmations, timers, issued, handlers, confirmedRuns,
                   flowVars>>

\* recordAction(userId, actionType, data, result); returned: the entry it returns;
\* saves: it reaches saveHistory; threw: an error left the call
RecordAction(u, actionType, rnd, written) ==
    LET hist == recordAction(actionHistory, u, actionType, SomeData, SomeResult, now, rnd)
        recorded == Truthy(Lookup(actionType))
        saved == saveHistory(hist, historyFile, written)
        threw == recorded /\ saved.threw
        desc == [handler |-> "recordAction", userId |-> u, actionType |-> actionType,
                 saves |-> recorded, written |-> written, threw |-> threw,
                 returned |-> IF recorded /\ ~threw THEN {hist[u][1]} ELSE {}]
    IN  /\ ~recorded => written
        /\ IF recorded
           THEN HistoryStep(desc, hist, saved.file, saved.logged)
           ELSE HistoryStep(desc, hist, historyFile, <<>>)

\* markAsUndone(userId, actionId); returned: its boolean result
MarkAsUndone(u, actionId, written) ==
    LET hist == markAsUndone(actionHistory, u, actionId, now)
        found == FoundAction(actionHistory, u, actionId) # 0
        saved == saveHistory(hist, historyFile, written)
        threw == found /\ saved.threw
        desc == [handler |-> "markAsUndone", userId |-> u, actionId |-> actionId,
                 saves |-> found, written |-> written, threw |-> threw,
                 returned |-> found /\ ~threw]
    IN  /\ ~found => written
        /\ IF found
           THEN HistoryStep(desc, hist, saved.file, saved.logged)
           ELSE HistoryStep(desc, hist, historyFile, <<>>)

\* clearHistory(userId)
ClearHistory(u, written) ==
    LET hist == clearHistory(actionHistory, u)
        found == u \in DOMAIN actionHistory
        saved == saveHistory(hist, historyFile, written)
        threw == found /\ saved.threw
        desc == [handler |-> "clearHistory", userId |-> u, saves |-> found,
                 written |-> written, threw |-> threw, returned |-> found /\ ~threw]
    IN  /\ ~found => written
        /\ IF found
           THEN HistoryStep(desc, hist, saved.file, saved.logged)
           ELSE HistoryStep(desc, hist, historyFile, <<>>)

\* the process starts again: the Map of pending confirmations and its timers
\* are new and empty, the handlers that were suspended are gone, loadHistory()
\* runs at module load; the sessions are read from data/sessions.json
Restart ==
    /\ inputs < MaxHistoryOps
    /\ inputs' = inputs + 1
    /\ pendingConfirmations' = <<>>
    /\ timers' = {}
    /\ handlers' = [i \in 1..MaxInputs |-> Idle]
    /\ actionHistory' = loadHistory(historyFile)
    /\ historyFile' = historyFile
    /\ logged' = <<>>
    /\ update' = [handler |-> "loadHistory"]
    /\ calls' = <<>> /\ classified' = <<>> /\ replies' = <<>>
    /\ NoInvalidation
    /\ UNCHANGED <<now, issued, confirmedRuns, flowVars>>

\* the confirmed bulk completion, the one caller of recordAction in index.js
ConfirmedBulkCompletion ==
    \/ \E u \in Users :
          /\ inputs < MaxHistoryOps
          /\ CreateConfirmationCall(u, "complete_all_events", CalendarEvents)
    \/ \E i \in 1..MaxInputs, u \in Users, cid \in AllConfirmButtons :
          /\ inputs < MaxHistoryOps
          /\ ConfirmYesArrives(i, u, cid)
    \/ \E i \in 1..MaxInputs, rnd \in RandomSuffixes : ConfirmYesResumes(i, 0, rnd)


NextHistory ==
    \* recordAction with a type of the table, one without an inverse, and one
    \* that names a property every object inherits
    \/ \E u \in Users, a \in {"create_event", "list_events", "constructor"},
          rnd \in RandomSuffixes, written \in BOOLEAN :
          RecordAction(u, a, rnd, written)
    \* markAsUndone with the id of one of the newest two entries or of the oldest
    \* entry of the user, or with an id no entry has
    \/ \E u \in Users, written \in BOOLEAN :
          LET list == HistoryOf(actionHistory, u)
          IN  \E id \in {list[i].id : i \in {1, 2, Len(list)} \cap (1..Len(list))}
                         \cup {<<0, "none">>} :
                 MarkAsUndone(u, id, written)
    \/ \E u \in Users, written \in BOOLEAN : ClearHistory(u, written)
    \/ Restart
    \/ ConfirmedBulkCompletion
    \/ Tick(1)

SpecHistory == InitHistory /\ [][NextHistory]_vars

----------------------------------------------------------------------------
(* bot.command('desfazer'): the undo command on a history filled through           *)
(* recordAction.                                                                   *)

MaxUndoOps == 4

\* lastAction.result?.id
ResultId(a) == IF "id" \in DOMAIN a.result THEN {a.result.id} ELSE {}

\* lastAction.data.originalSummary || lastAction.result.summary.replace('✅ ', '')
OriginalSummary(a) ==
    IF "originalSummary" \in DOMAIN a.data THEN a.data.originalSummary
    ELSE IF a.result.summary = "[v] Reuniao" THEN "Reuniao"  \* "[v] " stands for the mark
    ELSE a.result.summary

\* a variant in which the card cases leave the cache alone
InverseOf_CardsKeepCache(a) ==
    IF ResultId(a) = {} THEN <<>>
    ELSE LET id == a.result.id IN
         CASE a.type = "create_event" ->
                <<GoogleCall("deleteEvent", id, "event", id, "desfazer"),
                  Invalidate("events", "desfazer")>>
           [] a.type = "complete_event" ->
                <<GoogleCall("updateEvent", id, "summary", OriginalSummary(a), "desfazer"),
                  Invalidate("events", "desfazer")>>
           [] a.type = "trello_create" ->
                <<TrelloCall("deleteCard", id, "card", id, "desfazer")>>
           [] a.type = "trello_archive" ->
                <<TrelloCall("updateCard", id, "closed", FALSE, "desfazer")>>
           [] OTHER -> <<>>

\* the switch on lastAction.type: the inverse call of the entry and the scope whose
\* cache is invalidated after it, <<>> when the switch makes no call
InverseOf(a) ==
    IF ResultId(a) = {} THEN <<>>
    ELSE LET id == a.result.id IN
         CASE a.type = "create_event" ->
                <<GoogleCall("deleteEvent", id, "event", id, "desfazer"),
                  Invalidate("events", "desfazer")>>
           [] a.type = "complete_event" ->
                <<GoogleCall("updateEvent", id, "summary", OriginalSummary(a), "desfazer"),
                  Invalidate("events", "desfazer")>>
           [] a.type = "trello_create" ->
                <<TrelloCall("deleteCard", id, "card", id, "desfazer"),
                  Invalidate("trello", "desfazer")>>
           [] a.type = "trello_archive" ->
                <<TrelloCall("updateCard", id, "closed", FALSE, "desfazer"),
                  Invalidate("trello", "desfazer")>>
           [] OTHER -> <<>>

\* msg, when no call throws; a type the switch has no case for reaches default
UndoMessage(a) ==
    IF a.type \notin {"create_event", "complete_event", "trello_create", "trello_archive"}
    THEN "cannot_undo_type"
    ELSE IF ResultId(a) = {} THEN "empty_message"
    ELSE "undone_" \o a.type

\* the frame of the undo command
UndoStep(u, desc, hist, file, log, done, rs) ==
    /\ inputs < MaxUndoOps
    /\ inputs' = inputs + 1
    /\ actionHistory' = hist
    /\ historyFile' = file
    /\ logged' = log
    /\ update' = desc
    /\ calls' = RemoteCalls(done)
    /\ invalidated' = Invalidations(done)
    /\ classified' = <<>>
    /\ replies' = rs
    /\ UNCHANGED <<now, pendingConfirmations, timers, issued, handlers, confirmedRuns,
                   flowVars>>

\* a variant that flags the entry before the inverse call is made
Desfazer_FlagsFirst(u, ok, written) ==
    LET lastAction == getLastAction(actionHistory, u)
        desc == [handler |-> "desfazer", userId |-> u, ok |-> ok, written |-> written,
                 lastAction |-> lastAction]
    IN  IF lastAction = {}
        THEN /\ ok /\ written
             /\ UndoStep(u, desc, actionHistory, historyFile, <<>>, <<>>,
                         <<"nothing_to_undo">>)
        ELSE LET a == CHOOSE x \in lastAction : TRUE
                 inverse == InverseOf(a)
             IN  IF inverse = <<>>
                 THEN /\ ok /\ written
                      /\ UndoStep(u, desc, actionHistory, historyFile, <<>>, <<>>,
                                  <<UndoMessage(a)>>)
                 ELSE IF ~ok
                 THEN /\ written
                      /\ UndoStep(u, desc, markAsUndone(actionHistory, u, a.id, now),
                                  historyFile, <<>>, <<inverse[1]>>, <<"error_undoing">>)
                 ELSE LET hist == markAsUndone(actionHistory, u, a.id, now)
                          saved == saveHistory(hist, historyFile, written)
                      IN  UndoStep(u, desc, hist, saved.file, saved.logged, inverse,
                                   <<IF saved.threw THEN "error_undoing"
                                     ELSE UndoMessage(a)>>)
\* bot.command('desfazer'); ok: the inverse call succeeds; written: the history file
\* can be written
Desfazer(u, ok, written) ==
    LET lastAction == getLastAction(actionHistory, u)
        desc == [handler |-> "desfazer", userId |-> u, ok |-> ok, written |-> written,
                 lastAction |-> lastAction]
    IN  IF lastAction = {}
        THEN /\ ok /\ written
             /\ UndoStep(u, desc, actionHistory, historyFile, <<>>, <<>>,
                         <<"nothing_to_undo">>)
        ELSE LET a == CHOOSE x \in lastAction : TRUE
                 inverse == InverseOf(a)
             IN  IF inverse = <<>>
                 THEN /\ ok /\ written
                      /\ UndoStep(u, desc, actionHistory, historyFile, <<>>, <<>>,
                                  <<UndoMessage(a)>>)
                 ELSE IF ~ok
                 THEN /\ written
                      /\ UndoStep(u, desc, actionHistory, historyFile, <<>>,
                                  <<inverse[1]>>, <<"error_undoing">>)
                 ELSE LET hist == markAsUndone(actionHistory, u, a.id, now)
                          saved == saveHistory(hist, historyFile, written)
                      IN  UndoStep(u, desc, hist, saved.file, saved.logged, inverse,
                                   <<IF saved.threw THEN "error_undoing"
                                     ELSE UndoMessage(a)>>)

\* what the callers of recordAction pass for an action: its type, data and result
RecordCases ==
    {[type |-> "create_event", data |-> [summary |-> "Reuniao"],
      result |-> [id |-> "e1", summary |-> "Reuniao"]],
     [type |-> "create_event", data |-> [summary |-> "Reuniao"],
      result |-> [none |-> TRUE]],
     [type |-> "complete_event", data |-> [query |-> "reuniao"],
      result |-> [id |-> "e1", summary |-> "[v] Reuniao"]],
     [type |-> "complete_all_events", data |-> [count |-> 2],
      result |-> [eventIds |-> <<"e1", "e2">>]],
     [type |-> "delete_event", data |-> [summary |-> "Reuniao"],
      result |-> [id |-> "e1", summary |-> "Reuniao"]],
     [type |-> "trello_create", data |-> [name |-> "01. Contrato"],
      result |-> [id |-> "c1"]],
     [type |-> "trello_archive", data |-> [name |-> "01. Contrato"],
      result |-> [id |-> "c1"]],
     [type |-> "trello_move", data |-> [name |-> "01. Contrato"],
      result |-> [id |-> "c1"]],
     [type |-> "store_info", data |-> [key |-> "wifi"],
      result |-> [id |-> "k1"]]}

\* a Math.random() suffix no entry of the user recorded in this millisecond carries
FreshSuffixes(u) ==
    {r \in {"r1", "r2", "r3", "r4", "r5"} :
        \A i \in 1..Len(HistoryOf(actionHistory, u)) :
           HistoryOf(actionHistory, u)[i].id # <<now, r>>}

\* recordAction(userId, type, data, result) by a caller; the id it draws differs
\* from the ids of the entries the user has
RecordFor(u, c) ==
    /\ c \in RecordCases
    /\ FreshSuffixes(u) # {}
    /\ LET rnd == CHOOSE r \in FreshSuffixes(u) : TRUE
           hist == recordAction(actionHistory, u, c.type, c.data, c.result, now, rnd)
           saved == saveHistory(hist, historyFile, TRUE)
       IN  UndoStep(u, [handler |-> "recordAction", userId |-> u, actionType |-> c.type],
                    hist, saved.file, saved.logged, <<>>, <<>>)

NextUndo ==
    \/ \E u \in FlowUsers, c \in RecordCases : RecordFor(u, c)
    \/ \E u \in Users, ok \in BOOLEAN, written \in BOOLEAN : Desfazer(u, ok, written)

SpecUndo == Init /\ [][NextUndo]_vars

----------------------------------------------------------------------------
(* Claims on the undo command *)

\* the step is the undo command of user u
Undoes(u) == update'.handler = "desfazer" /\ update'.userId = u

\* every entry of the list is undone (an empty list included)
AllUndone(list) == \A i \in 1..Len(list) : list[i].undone

\* C22: when the user's history has no entry with undone = false (it is empty, or
\* every entry is undone), the undo command replies that there is nothing to undo,
\* makes no remote call and changes no state.
C22_NothingToUndo ==
    [][\A u \in Users :
          (Undoes(u) /\ AllUndone(HistoryOf(actionHistory, u)))
             => /\ replies' = <<"nothing_to_undo">>
                /\ calls' = <<>>
                /\ invalidated' = <<>>
                /\ actionHistory' = actionHistory
                /\ historyFile' = historyFile
                /\ logged' = <<>>
                /\ UNCHANGED <<pendingConfirmations, flowVars>>]_vars

\* the undo command has just answered a user whose entries are all undone
C22_Witness ==
    /\ update.handler = "desfazer"
    /\ replies = <<"nothing_to_undo">>
    /\ HistoryOf(actionHistory, update.userId) # <<>>
    /\ AllUndone(HistoryOf(actionHistory, update.userId))

\* the entry a of user u is flagged in the history after the step, and the next
\* undo command will not get it again
FlaggedAfter(u, a) ==
    /\ \E i \in 1..Len(HistoryOf(actionHistory', u)) :
          /\ actionHistory'[u][i].id = a.id
          /\ actionHistory'[u][i].undone
          /\ ~actionHistory[u][i].undone
    /\ a \notin getLastAction(actionHistory', u)

\* C23: for every action type of the inverse table, when the entry getLastAction
\* returns has that type (and holds the result of its action) and the collaborator
\* answers, the undo command makes the inverse call on the collaborator and flags
\* the entry undone, so that the following undo command reaches the next older entry.
C23_EveryTypeIsUndone ==
    [][\A u \in Users :
          (Undoes(u) /\ update'.ok) =>
             \A a \in update'.lastAction :
                (a.type \in DOMAIN UNDOABLE_ACTIONS /\ a.result # [none |-> TRUE])
                   => /\ Len(calls') = 1
                      /\ FlaggedAfter(u, a)]_vars

\* C24: an undo whose inverse remote call succeeds always invalidates the cache of
\* the scope the call touched and flags the entry undone.
C24_UndoInvalidatesAndFlags ==
    [][\A u \in Users :
          (Undoes(u) /\ update'.ok /\ calls' # <<>>)
             => /\ invalidated' = <<ScopeOf(calls'[1])>>
                /\ \A a \in update'.lastAction : FlaggedAfter(u, a)]_vars

\* the undo command has just unarchived or deleted a card and flagged its entry
C24_Witness ==
    /\ update.handler = "desfazer"
    /\ update.ok
    /\ calls # <<>>
    /\ calls[1].svc = "trello"
    /\ invalidated = <<"trello">>
    /\ \A a \in update.lastAction :
          \E i \in 1..Len(HistoryOf(actionHistory, update.userId)) :
             actionHistory[update.userId][i].id = a.id
             /\ actionHistory[update.userId][i].undone

----------------------------------------------------------------------------
(* Claims on the action history store *)

\* the step is a call of the named operation of the store
Called(op) == update'.handler = op

\* C15: recordAction with an action type that has no registered inverse is a no-op:
\* it returns nothing, the history in memory and the file stay as they were, and
\* getLastAction answers as before.
C15_NoInverseIsNoOp ==
    [][(Called("recordAction") /\ update'.actionType \notin DOMAIN UNDOABLE_ACTIONS)
          => /\ update'.returned = {}
             /\ actionHistory' = actionHistory
             /\ historyFile' = historyFile
             /\ getLastAction(actionHistory', update'.userId)
                   = getLastAction(actionHistory, update'.userId)]_vars

\* the list is ordered newest first
NewestFirst(list) ==
    \A i, j \in 1..Len(list) : i < j => list[i].timestamp >= list[j].timestamp

\* the list a recording of entry leaves: entry in front, and of a full list every
\* entry but the last one, in the order they had
AfterRecording(entry, list) ==
    <<entry>> \o (IF Len(list) = MAX_HISTORY_PER_USER
                  THEN SubSeq(list, 1, Len(list) - 1) ELSE list)

\* C16: after any sequence of recordAction calls each user's list holds at most 20
\* entries, newest first; a recording into a full list of 20 drops exactly the
\* oldest entry and leaves the lists of the other users alone.
C16_CappedNewestFirst ==
    /\ [](\A u \in Users : /\ Len(HistoryOf(actionHistory, u)) <= MAX_HISTORY_PER_USER
                            /\ NewestFirst(HistoryOf(actionHistory, u)))
    /\ [][(Called("recordAction") /\ update'.returned # {})
            => \A u \in Users :
                  HistoryOf(actionHistory', u) =
                     IF u = update'.userId
                     THEN AfterRecording(CHOOSE a \in update'.returned : TRUE,
                                         HistoryOf(actionHistory, u))
                     ELSE HistoryOf(actionHistory, u)]_vars

\* a recording has just evicted the oldest entry of a full list: the list is full
\* and the entry of time -20, the oldest the earlier process left, is gone
C16_Witness ==
    /\ update.handler = "recordAction"
    /\ update.returned # {}
    /\ Len(HistoryOf(actionHistory, update.userId)) = MAX_HISTORY_PER_USER
    /\ HistoryOf(actionHistory, update.userId)[1] \in update.returned
    /\ HistoryOf(actionHistory, update.userId)[MAX_HISTORY_PER_USER].timestamp
          = 1 - MAX_HISTORY_PER_USER

\* an entry with its undo marks left aside
Unmarked(a) == [a EXCEPT !.undone = FALSE, !.undoneAt = {}]

\* k is the position of the most recent entry of list that is not undone
MostRecentLive(list, k) ==
    /\ k \in 1..Len(list)
    /\ ~list[k].undone
    /\ \A j \in 1..(k - 1) : list[j].undone

\* C17: markAsUndone never removes an entry nor changes the length or the order of
\* a list: it only flags the entry it was called for (undone, with the time of the
\* call), and getLastAction afterwards skips that entry and returns the most recent
\* entry that is not undone, or nothing when every entry is undone; a call for an
\* id no entry has changes nothing.
C17_MarkOnlyFlags ==
    [][Called("markAsUndone")
          => LET u == update'.userId
                 before == HistoryOf(actionHistory, u)
                 after == HistoryOf(actionHistory', u)
                 i == FoundAction(actionHistory, u, update'.actionId)
                 last == getLastAction(actionHistory', u)
             IN  /\ \A v \in Users \ {u} :
                       HistoryOf(actionHistory', v) = HistoryOf(actionHistory, v)
                 /\ Len(after) = Len(before)
                 /\ \A j \in 1..Len(before) :
                       IF j = i
                       THEN /\ after[j].undone
                            /\ Unmarked(after[j]) = Unmarked(before[j])
                       ELSE after[j] = before[j]
                 /\ (i = 0) = ~update'.returned
                 /\ \A a \in last : \E k \in 1..Len(after) :
                       k # i /\ a = after[k] /\ MostRecentLive(after, k)
                 /\ (last = {}) = (\A j \in 1..Len(after) : after[j].undone)]_vars

\* markAsUndone has just flagged the newest entry of a list of several entries, and
\* getLastAction now answers with the entry behind it
C17_Witness ==
    /\ update.handler = "markAsUndone"
    /\ update.returned
    /\ LET list == HistoryOf(actionHistory, update.userId)
       IN  /\ Len(list) >= 2
           /\ list[1].id = update.actionId
           /\ list[1].undone
           /\ getLastAction(actionHistory, update.userId) = {list[2]}

\* C18: markAsUndone is idempotent: a call for an entry that is already undone
\* returns as the first call did and leaves the history, in memory and (when the
\* write succeeds) on disk, exactly as it was after the first call.
C18_MarkIsIdempotent ==
    [][(/\ Called("markAsUndone")
        /\ LET i == FoundAction(actionHistory, update'.userId, update'.actionId)
           IN  i # 0 /\ actionHistory[update'.userId][i].undone)
          => /\ update'.returned
             /\ actionHistory' = actionHistory
             /\ (update'.written /\ historyFile = {Stringify(actionHistory)})
                   => historyFile' = historyFile]_vars

\* the step is a call of the store that reached saveHistory and whose write succeeded
Saved == /\ update'.handler \in {"recordAction", "markAsUndone", "clearHistory"}
         /\ update'.saves
         /\ update'.written

\* C19: after every recordAction, markAsUndone or clearHistory whose write succeeds,
\* the history file holds exactly the in-memory history, and a process restart
\* (loading the file) restores that same history.
C19_FileEqualsMemory ==
    [][Saved => /\ historyFile' = {actionHistory'}
                /\ loadHistory(historyFile') = actionHistory']_vars

\* the step is a call of op that reached saveHistory while the file could not be
\* written
WriteFailed(op) == Called(op) /\ update'.saves /\ ~update'.written

\* the step is a confirmed bulk completion whose remote calls all succeeded
BulkCompletionDone ==
    /\ Called("confirm_yes")
    /\ update'.phase = "resume"
    /\ calls' # <<>>
    /\ \A k \in 1..Len(calls') : calls'[k].op = "updateEvent"

\* C20: when writing the history file fails, recordAction and markAsUndone do not
\* throw: the change is applied in memory (the new entry is at the head of the list
\* and returned; the entry is flagged), the failure is logged and the file stays as
\* it was; the confirmed bulk completion that triggered a recording still answers
\* that the events were completed, whether the write succeeded or not.
C20_WriteFailureIsLogged ==
    [][/\ WriteFailed("recordAction")
          => /\ ~update'.threw
             /\ update'.returned # {}
             /\ update'.returned = {HistoryOf(actionHistory', update'.userId)[1]}
             /\ actionHistory' # actionHistory
             /\ logged' = <<"error_saving_history">>
             /\ historyFile' = historyFile
       /\ WriteFailed("markAsUndone")
          => /\ ~update'.threw
             /\ update'.returned
             /\ \E i \in 1..Len(HistoryOf(actionHistory', update'.userId)) :
                   LET a == actionHistory'[update'.userId][i]
                   IN  a.id = update'.actionId /\ a.undone /\ a.undoneAt = {now}
             /\ logged' = <<"error_saving_history">>
             /\ historyFile' = historyFile
       /\ BulkCompletionDone
          => /\ replies' = <<"events_completed">>
             /\ HistoryOf(actionHistory', update'.userId)[1].type = "complete_all_events"
             /\ HistoryOf(actionHistory', update'.userId)[1].timestamp = now
             /\ logged' # <<>> => historyFile' = historyFile]_vars

\* a confirmed bulk completion has just answered that the events were completed
\* although the recording could not write the file
C20_Witness ==
    /\ update.handler = "confirm_yes"
    /\ update.phase = "resume"
    /\ logged = <<"error_saving_history">>
    /\ replies = <<"events_completed">>
    /\ HistoryOf(actionHistory, update.userId) # <<>>
    /\ HistoryOf(actionHistory, update.userId)[1].type = "complete_all_events"
    /\ historyFile # {Stringify(actionHistory)}

-----------------------------------------------------------------------------
(* Resolving a card or a list from the user's words.  A text is a sequence
   of characters; "a'" and "A'" stand for the letter a with an acute accent,
   "ord" and "deg" for the ordinal and degree signs. *)

MaxCandidates == 2       \* candidates the board returns to one resolution

Drop(s, n) == SubSeq(s, n + 1, Len(s))
StartsWith(s, p) == Len(p) <= Len(s) /\ SubSeq(s, 1, Len(p)) = p
\* String.prototype.includes; the empty text is included in every text
Includes(s, p) == \E i \in 0..(Len(s) - Len(p)) : SubSeq(s, i + 1, i + Len(p)) = p
\* the length of the run of characters of set cs that s starts with
Leading(s, cs) ==
    CHOOSE n \in 0..Len(s) :
        /\ \A i \in 1..n : s[i] \in cs
        /\ n = Len(s) \/ s[n + 1] \notin cs
Trailing(s, cs) ==
    CHOOSE n \in 0..Len(s) :
        /\ \A i \in (Len(s) - n + 1)..Len(s) : s[i] \in cs
        /\ n = Len(s) \/ s[Len(s) - n] \notin cs
Whitespace == {" "}

toLowerCase(s) ==
    LET UpperCase == <<"A", "B", "C", "D", "E", "F", "G", "H", "I", "J", "K", "L", "M", "N",
                       "O", "P", "Q", "R", "S", "T", "U", "V", "W", "X", "Y", "Z", "A'">>
        LowerCase == <<"a", "b", "c", "d", "e", "f", "g", "h", "i", "j", "k", "l", "m", "n",
                       "o", "p", "q", "r", "s", "t", "u", "v", "w", "x", "y", "z", "a'">>
    IN  [i \in 1..Len(s) |->
            IF \E k \in 1..Len(UpperCase) : UpperCase[k] = s[i]
            THEN LowerCase[CHOOSE k \in 1..Len(UpperCase) : UpperCase[k] = s[i]]
            ELSE s[i]]
trim(s) == SubSeq(s, Leading(s, Whitespace) + 1, Len(s) - Trailing(s, Whitespace))
\* str.toLowerCase().normalize('NFD').replace(<the combining marks>, '').trim()
normalize(s) ==
    LET lower == toLowerCase(s)
        stripMarks == [i \in 1..Len(s) |-> IF lower[i] = "a'" THEN "a" ELSE lower[i]]
    IN  trim(stripMarks)

\* query.match(/^(?:item|card|tarefa|n[ord deg])?\s*0*(\d+)$/i): the digits
\* captured, in a sequence that is empty when the query does not match
numberMatch(query) ==
    LET NumberPrefixes ==
            <<<<"i", "t", "e", "m">>, <<"c", "a", "r", "d">>, <<"t", "a", "r", "e", "f", "a">>,
              <<"n", "ord">>, <<"n", "deg">>>>
        Digits == {"0", "1", "2", "3", "4", "5", "6", "7", "8", "9"}
        \* \s*0*(\d+)$ on the rest of the query
        DigitsOf(rest) ==
            LET r == Drop(rest, Leading(rest, Whitespace))
                zeros == Leading(r, {"0"})
            IN  IF r # <<>> /\ \A i \in 1..Len(r) : r[i] \in Digits
                THEN <<Drop(r, IF zeros = Len(r) THEN zeros - 1 ELSE zeros)>>
                ELSE <<>>
        lower == toLowerCase(query)
        fits(k) == /\ StartsWith(lower, NumberPrefixes[k])
                   /\ DigitsOf(Drop(query, Len(NumberPrefixes[k]))) # <<>>
    IN  IF \E k \in 1..Len(NumberPrefixes) : fits(k)
        THEN DigitsOf(Drop(query,
                 Len(NumberPrefixes[CHOOSE k \in 1..Len(NumberPrefixes) : fits(k)])))
        ELSE DigitsOf(query)

\* Array.prototype.find: the first element that holds, in a sequence that is
\* empty when none does; holds[i] is the callback's answer for element i
Find(list, holds) ==
    IF \E i \in 1..Len(list) : holds[i]
    THEN <<list[FirstIndex(holds)]>>
    ELSE <<>>
\* cards.find(c => c.name.startsWith(`${paddedNum}.`) || c.name.startsWith(`${num}.`))
\* with paddedNum = num.padStart(2, '0')
FindNumbered(cards, num) ==
    LET paddedNum == IF Len(num) < 2 THEN [i \in 1..(2 - Len(num)) |-> "0"] \o num ELSE num
    IN  Find(cards, [i \in 1..Len(cards) |->
            \/ StartsWith(cards[i].name, paddedNum \o <<".">>)
            \/ StartsWith(cards[i].name, num \o <<".">>)])

\* the words of a text: its maximal runs of characters other than whitespace
Words(s) ==
    { SubSeq(s, p[1], p[2]) :
        p \in { q \in (1..Len(s)) \X (1..Len(s)) :
                  /\ q[1] <= q[2]
                  /\ \A k \in q[1]..q[2] : s[k] \notin Whitespace
                  /\ q[1] = 1 \/ s[q[1] - 1] \in Whitespace
                  /\ q[2] = Len(s) \/ s[q[2] + 1] \in Whitespace } }

\* findTrelloCardFuzzy(cards, query) and findTrelloListFuzzy(lists, query), the
\* exact and the fuzzy strategy of the matcher: a candidate whose normalized
\* name equals the normalized query when there is one; otherwise the best
\* candidate whose name shares a word with the query when its score passes the
\* threshold, and no candidate when none does.  The operator gives the
\* outcomes the scoring may have, each a sequence of at most one candidate.
FuzzyMatcher(candidates, query) ==
    LET exact == { i \in 1..Len(candidates) :
                     normalize(candidates[i].name) = normalize(query) }
        similar == { i \in 1..Len(candidates) :
                       Words(normalize(candidates[i].name)) \cap Words(normalize(query)) # {} }
    IN  IF exact # {}
        THEN { <<candidates[i]>> : i \in exact }
        ELSE {<<>>} \cup { <<candidates[i]>> : i \in similar }

\* a variant that tries the fuzzy match before the number
findTrelloCardByQuery_FuzzyFirst(query, cards, fuzzy, search) ==
    LET m == numberMatch(query)
        byNumber == IF m = <<>> THEN <<>> ELSE FindNumbered(cards, m[1])
    IN  IF fuzzy # <<>>
        THEN [card |-> fuzzy, tried |-> <<"fuzzy">>]
        ELSE IF byNumber # <<>>
        THEN [card |-> byNumber, tried |-> <<"fuzzy", "number">>]
        ELSE [card |-> IF ~search.threw /\ search.results # <<>>
                       THEN <<search.results[1]>> ELSE <<>>,
              tried |-> <<"fuzzy", "number", "search">>]
\* findTrelloCardByQuery(query) on the cards listAllCards returned; fuzzy: the
\* answer of findTrelloCardFuzzy, search: the answer of searchCards, both
\* used only when the code reaches the call; card: the card returned, in a
\* sequence that is empty for null; tried: the lookups made, in order
findTrelloCardByQuery(query, cards, fuzzy, search) ==
    LET m == numberMatch(query)
        byNumber == IF m = <<>> THEN <<>> ELSE FindNumbered(cards, m[1])
        before == IF m = <<>> THEN <<>> ELSE <<"number">>
    IN  IF byNumber # <<>>
        THEN [card |-> byNumber, tried |-> before]
        ELSE IF fuzzy # <<>>
        THEN [card |-> fuzzy, tried |-> before \o <<"fuzzy">>]
        ELSE [card |-> IF ~search.threw /\ search.results # <<>>
                       THEN <<search.results[1]>> ELSE <<>>,
              tried |-> before \o <<"fuzzy", "search">>]

\* replace(/\s*\(.*?\)\s*/g, ''): every parenthesis that is closed goes, with
\* the whitespace around it
RECURSIVE removeParentheses(_)
removeParentheses(s) ==
    IF \E i, j \in 1..Len(s) : i < j /\ s[i] = "(" /\ s[j] = ")"
    THEN LET i == CHOOSE k \in 1..Len(s) : s[k] = "(" /\ \A h \in 1..(k - 1) : s[h] # "("
             j == CHOOSE k \in (i + 1)..Len(s) : s[k] = ")" /\ \A h \in (i + 1)..(k - 1) : s[h] # ")"
             before == SubSeq(s, 1, i - 1)
             after == Drop(s, j)
         IN  SubSeq(before, 1, Len(before) - Trailing(before, Whitespace))
                 \o removeParentheses(Drop(after, Leading(after, Whitespace)))
    ELSE s
\* the list_query without its qualifiers; the original when nothing is left
cleanListQuery(list_query) ==
    LET \* the text cut at the first position that hits, with the whitespace before it
        cutAt(s, hits) ==
            IF \E k \in 1..Len(s) : hits[k]
            THEN LET before == SubSeq(s, 1, FirstIndex(hits) - 1)
                 IN  SubSeq(before, 1, Len(before) - Trailing(before, Whitespace))
            ELSE s
        \* the word, after at least one whitespace character, starts the text
        AfterSpaces(s, word) ==
            Leading(s, Whitespace) > 0 /\ StartsWith(Drop(s, Leading(s, Whitespace)), word)
        \* replace(/\s*-\s+dependendo.*$/i, '')
        removeDashClause(s) ==
            cutAt(s, [k \in 1..Len(s) |->
                s[k] = "-" /\ AfterSpaces(toLowerCase(Drop(s, k)), <<"d", "e", "p", "e", "n", "d", "e", "n", "d", "o">>)])
        \* replace(/\s*dependendo\s+de\s+.*/i, '')
        removeDependingClause(s) ==
            cutAt(s, [k \in 1..Len(s) |->
                LET rest == toLowerCase(Drop(s, k - 1))
                    afterWord == Drop(rest, Len(<<"d", "e", "p", "e", "n", "d", "e", "n", "d", "o">>))
                    afterDe == Drop(afterWord, Leading(afterWord, Whitespace) + Len(<<"d", "e">>))
                IN  /\ StartsWith(rest, <<"d", "e", "p", "e", "n", "d", "e", "n", "d", "o">>)
                    /\ AfterSpaces(afterWord, <<"d", "e">>)
                    /\ Leading(afterDe, Whitespace) > 0])
        cleaned == trim(removeDependingClause(removeDashClause(removeParentheses(list_query))))
    IN  IF cleaned = <<>> THEN trim(list_query) ELSE cleaned

\* the resolution of intentData.list_query in the trello_create branch; fuzzy:
\* the answer of findTrelloListFuzzy(groups, cleanListQuery), used when the
\* code reaches the call; list: the target list, in a sequence that is empty
\* when the card goes to the inbox; tried: the lookups made, in order
resolveTargetList(list_query, groups, fuzzy) ==
    LET queryNorm == normalize(cleanListQuery(list_query))
        exact == Find(groups, [i \in 1..Len(groups) |-> normalize(groups[i].name) = queryNorm])
        contains == Find(groups, [i \in 1..Len(groups) |->
                        \/ Includes(normalize(groups[i].name), queryNorm)
                        \/ Includes(queryNorm, normalize(groups[i].name))])
        \* queryNorm.split(/\s+/)[0]
        firstWord == SubSeq(queryNorm, 1,
                         Leading(queryNorm, {queryNorm[k] : k \in 1..Len(queryNorm)} \ Whitespace))
        byWord == IF Len(firstWord) > 2
                  THEN Find(groups, [i \in 1..Len(groups) |->
                                        Includes(normalize(groups[i].name), firstWord)])
                  ELSE <<>>
    IN  IF exact # <<>> THEN [list |-> exact, tried |-> <<"exact">>]
        ELSE IF fuzzy # <<>> THEN [list |-> fuzzy, tried |-> <<"exact", "fuzzy">>]
        ELSE IF contains # <<>> THEN [list |-> contains, tried |-> <<"exact", "fuzzy", "contains">>]
        ELSE [list |-> byWord, tried |-> <<"exact", "fuzzy", "contains", "firstWord">>]

\* the inputs of one resolution: what the user calls the card or the
\* classifier puts in list_query, the open cards or the lists the board
\* returns, and the answer of trelloService.searchCards (no card, an archived
\* card, an error)
MatchInputs ==
    LET CardPool ==
            { [id |-> "c1", name |-> <<"0", "2", ".", " ", "P", "r", "o", "p", "o", "s", "t", "a">>],
              [id |-> "c2", name |-> <<"2", ".", " ", "O", "u", "t", "r", "o">>],
              [id |-> "c3", name |-> <<"C", "a", "r", "d", " ", "2">>],
              [id |-> "c4", name |-> <<"C", "o", "n", "t", "r", "a", "t", "o">>],
              [id |-> "c5", name |-> <<"P", "r", "o", "p", "o", "s", "t", "a", " ", "n", "o", "v", "a">>] }
        CardQueries ==
            { <<"0", "2">>, <<"i", "t", "e", "m", " ", "2">>, <<"2">>,
              <<"c", "a", "r", "d", " ", "2">>,
              <<"T", "a", "r", "e", "f", "a", " ", "0", "0", "2">>,
              <<"n", "ord", " ", "2">>, <<"c", "o", "n", "t", "r", "a", "t", "o">>,
              <<"P", "r", "o", "p", "o", "s", "t", "a">>, <<"x", "y", "z">>,
              <<"3">>, <<"2", " ">>,
              <<"p", "r", "o", "p", "o", "s", "t", "a", " ", "n", "o", "v", "a">> }
        SearchAnswers ==
            { [threw |-> FALSE, results |-> <<>>],
              [threw |-> FALSE, results |-> <<[id |-> "c9", name |-> <<"A", "n", "t", "i", "g", "o">>]>>],
              [threw |-> TRUE, results |-> <<>>] }
        ListPool ==
            { [id |-> "l1", name |-> <<"P", "a", "r", "a", "d", "o">>],
              [id |-> "l2", name |-> <<"P", "a", "r", "a", "d", "o", " ", "(", "u", "r", "g", "e", "n", "t", "e", ")">>],
              [id |-> "l3", name |-> <<"T", "I">>],
              [id |-> "l4", name |-> <<"I", "n", "b", "o", "x">>],
              [id |-> "l5", name |-> <<"A", "n", "a'", "l", "i", "s", "e">>] }
        ListQueries ==
            { <<"p", "a", "r", "a", "d", "o">>, <<"P", "a", "r", "a", "d", "o", " ", "(", "u", "r", "g", "e", "n", "t", "e", ")">>,
              <<"a", "n", "a", "l", "i", "s", "e">>,
              <<"P", "a", "r", "a", "d", "o", " ", "d", "e", "p", "e", "n", "d", "e", "n", "d", "o", " ", "d", "e", " ", "A", "n", "a">>,
              <<"P", "a", "r", "a", " ", "r", "e", "v", "i", "s", "a", "r">>,
              <<"x", "y", "z">>, <<"I", "n", "b", "o", "x", " ", "-", " ", "d", "e", "p", "e", "n", "d", "e", "n", "d", "o", " ", "d", "e", " ", "A", "n", "a">>,
              <<"L", "i", "s", "t", "a", " ", "P", "a", "r", "a", "d", "o">>,
              <<"M", "a", "r", "k", "e", "t", "i", "n", "g">>,
              <<" ", "I", "N", "B", "O", "X", " ">> }
        \* the lists of at most MaxCandidates distinct candidates of a pool
        CandidateLists(pool) ==
            { l \in UNION { [1..k -> pool] : k \in 0..MaxCandidates } :
                \A i, j \in 1..Len(l) : i # j => l[i] # l[j] }
    IN  { [handler |-> "start", kind |-> "card", query |-> q, candidates |-> cs, search |-> s] :
            q \in CardQueries, cs \in CandidateLists(CardPool), s \in SearchAnswers }
        \cup
        { [handler |-> "start", kind |-> "list", query |-> q, candidates |-> gs] :
            q \in ListQueries, gs \in CandidateLists(ListPool) }

\* the state before a step, with the inputs of the step in update
Started(descs) ==
    /\ now = 0
    /\ inputs = 0
    /\ pendingConfirmations = <<>>
    /\ timers = {}
    /\ issued = [u \in Users |-> <<>>]
    /\ handlers = [i \in 1..MaxInputs |-> Idle]
    /\ confirmedRuns = [u \in Users |-> <<>>]
    /\ actionHistory = <<>>
    /\ historyFile = {}
    /\ logged = <<>>
    /\ session = [u \in Users |-> EmptySession]
    /\ deleteButtons = [u \in Users |-> {}]
    /\ conflictPrompts = [u \in Users |-> <<>>]
    /\ users = <<>>
    /\ allowedAt = [u \in Users |-> <<>>]
    /\ update \in descs
    /\ calls = <<>>
    /\ invalidated = <<>>
    /\ classified = <<>>
    /\ replies = <<>>

\* a handler resolves the card its intent names
ResolveCard ==
    /\ update.handler = "start"
    /\ update.kind = "card"
    /\ \E fuzzy \in FuzzyMatcher(update.candidates, update.query) :
        update' = [handler |-> "findTrelloCardByQuery", kind |-> "card",
                   query |-> update.query, candidates |-> update.candidates,
                   search |-> update.search,
                   returned |-> findTrelloCardByQuery(update.query, update.candidates,
                                                      fuzzy, update.search)]
    /\ UNCHANGED <<confVars, flowVars, actionHistory, historyFile, logged, calls,
                   invalidated, classified, replies>>

\* the trello_create branch resolves the list its intent names
ResolveList ==
    /\ update.handler = "start"
    /\ update.kind = "list"
    /\ \E fuzzy \in FuzzyMatcher(update.candidates, cleanListQuery(update.query)) :
        update' = [handler |-> "trello_create", kind |-> "list",
                   query |-> update.query, candidates |-> update.candidates,
                   returned |-> resolveTargetList(update.query, update.candidates, fuzzy)]
    /\ UNCHANGED <<confVars, flowVars, actionHistory, historyFile, logged, calls,
                   invalidated, classified, replies>>

NextMatch == ResolveCard \/ ResolveList
SpecMatch == Started(MatchInputs) /\ [][NextMatch]_vars

-----------------------------------------------------------------------------
(* Claims on the resolution of cards and lists *)

\* the numbers a query of the model may reduce to
NumberTexts == { <<"2">>, <<"3">> }
\* the query is the number n, after an optional word, whitespace and zeros
ReducesTo(query, n) ==
    \E w \in { <<>>, <<"i", "t", "e", "m">>, <<"c", "a", "r", "d">>,
              <<"t", "a", "r", "e", "f", "a">>, <<"n", "ord">>, <<"n", "deg">> } :
    \E spaces, zeros \in 0..Len(query) :
        toLowerCase(query) = w \o [i \in 1..spaces |-> " "] \o [i \in 1..zeros |-> "0"] \o n
\* the name starts with the number, padded to two digits or not, and a period
Numbered(name, n) ==
    \/ StartsWith(name, n \o <<".">>)
    \/ StartsWith(name, (IF Len(n) = 1 THEN <<"0">> ELSE <<>>) \o n \o <<".">>)

\* C27: a query that reduces to a bare number, optionally after a word such as
\* item or card, resolves to a card whose name starts with that number, padded
\* to two digits or not, followed by a period, whenever the board has such a
\* card, and the card is returned before any fuzzy match is attempted
C27_NumberBeforeFuzzy ==
    \A n \in NumberTexts :
        ( /\ update.handler = "findTrelloCardByQuery"
          /\ ReducesTo(update.query, n)
          /\ \E i \in 1..Len(update.candidates) : Numbered(update.candidates[i].name, n) )
        => /\ update.returned.card # <<>>
           /\ \E i \in 1..Len(update.candidates) :
                update.returned.card[1] = update.candidates[i]
           /\ Numbered(update.returned.card[1].name, n)
           /\ update.returned.tried = <<"number">>
\* "item 2" is resolved to "02. Proposta" although "Card 2" comes first on the board
C27_Witness ==
    /\ update.handler = "findTrelloCardByQuery"
    /\ update.query = <<"i", "t", "e", "m", " ", "2">>
    /\ Len(update.candidates) = 2
    /\ update.candidates[1].name = <<"C", "a", "r", "d", " ", "2">>
    /\ update.returned.card # <<>>
    /\ update.returned.card[1].name = <<"0", "2", ".", " ", "P", "r", "o", "p", "o", "s", "t", "a">>
    /\ update.returned.tried = <<"number">>

\* the candidates whose normalized name equals the normalized query
SameName(candidates, query) ==
    { i \in 1..Len(candidates) : normalize(candidates[i].name) = normalize(query) }

\* C28: a query that, after normalization, equals the display name of exactly
\* one candidate resolves to that candidate, for cards and for target lists
C28_ExactNameResolves ==
    \A i \in 1..Len(update.candidates) :
        SameName(update.candidates, update.query) = {i}
        => /\ update.handler = "findTrelloCardByQuery"
              => update.returned.card = <<update.candidates[i]>>
           /\ update.handler = "trello_create"
              => update.returned.list = <<update.candidates[i]>>

\* the name is a plausible match of the query: the normalized texts are equal,
\* share a word, or one holds the other and the one held has three characters
\* or more; or the query reduces to the number the name starts with
Plausible(query, name) ==
    LET q == normalize(query)
        n == normalize(name)
    IN  \/ q = n
        \/ Words(q) \cap Words(n) # {}
        \/ Len(n) >= 3 /\ Includes(q, n)
        \/ Len(q) >= 3 /\ Includes(n, q)
        \/ \E d \in NumberTexts : ReducesTo(query, d) /\ Numbered(name, d)

\* C29: a query with no plausible match resolves to not found, never to an
\* arbitrary candidate: whatever a resolution returns, from the board, from the
\* remote search or from the containment and first-word fallbacks of the
\* lists, is a plausible match of the query
C29_OnlyPlausibleMatches ==
    /\ (update.handler = "findTrelloCardByQuery" /\ update.returned.card # <<>>)
       => Plausible(update.query, update.returned.card[1].name)
    /\ (update.handler = "trello_create" /\ update.returned.list # <<>>)
       => Plausible(update.query, update.returned.list[1].name)

-----------------------------------------------------------------------------
(* The conflict check of a proposed event and the suggestions of its prompt.
   Times are minutes of one day. *)

ScanSteps == 4           \* slots the search window holds after the proposal

\* smartScheduling.checkConflicts(intent) on a calendar that was fetched: the
\* proposal ends 60 minutes after its start when the intent has no end; a
\* conflict when a commitment intersects [start, end), and then the first free
\* slots of a scan in steps of the proposal's duration, in the order of the
\* scan, capped at 3
scanConflicts(intent, existing) ==
    LET end == IF intent.end = <<>> THEN intent.start + 60 ELSE intent.end[1]
        duration == end - intent.start
        Intersects(a, b) == a.start < b.end /\ b.start < a.end
        ScannedSlot(k) == [start |-> intent.start + k * duration,
                           end |-> intent.start + (k + 1) * duration]
        free == SelectSeq([k \in 1..ScanSteps |-> ScannedSlot(k)],
                          LAMBDA slot : \A c \in existing : ~Intersects(slot, c))
        hasConflict == \E c \in existing : Intersects([start |-> intent.start, end |-> end], c)
    IN  [hasConflict |-> hasConflict,
         suggestions |-> IF hasConflict
                         THEN SubSeq(free, 1, IF Len(free) < 3 THEN Len(free) ELSE 3)
                         ELSE <<>>]
\* a variant whose buttons show the latest suggestion first
getConflictButtons_LatestFirst(suggestions) ==
    [i \in 1..AcceptButtons(suggestions) |-> suggestions[AcceptButtons(suggestions) + 1 - i]]
\* getConflictButtons: the suggestions that get a conflict_accept button
getConflictButtons(suggestions) == SubSeq(suggestions, 1, AcceptButtons(suggestions))

\* the inputs of one conflict check: the proposal of the classifier, whose end
\* is a sequence that is empty when the intent has none, and the commitments
\* of the calendar
ConflictInputs ==
    LET Interval(a, b) == [start |-> a, end |-> b]
        CommitmentPool ==
            { Interval(0, 60), Interval(30, 90), Interval(60, 120), Interval(90, 150),
              Interval(120, 180), Interval(150, 180), Interval(180, 240) }
        TimedProposals ==
            UNION { { [start |-> s, end |-> e] :
                        e \in {<<>>} \cup { <<s + d>> : d \in {30, 60, 90} } } :
                    s \in {0, 30, 60} }
    IN  { [handler |-> "start", kind |-> "event", intent |-> p, existing |-> cs] :
            p \in TimedProposals,
            cs \in { s \in SUBSET CommitmentPool : Cardinality(s) <= 2 } }

\* the create_event branch checks the proposal and, on a conflict, shows the
\* prompt with its buttons
ReportConflict ==
    /\ update.handler = "start"
    /\ update.kind = "event"
    /\ LET conflictCheck == scanConflicts(update.intent, update.existing)
       IN  update' = [handler |-> "create_event", kind |-> "event",
                      intent |-> update.intent, existing |-> update.existing,
                      hasConflict |-> conflictCheck.hasConflict,
                      offered |-> IF conflictCheck.hasConflict
                                  THEN getConflictButtons(conflictCheck.suggestions)
                                  ELSE <<>>]
    /\ UNCHANGED <<confVars, flowVars, actionHistory, historyFile, logged, calls,
                   invalidated, classified, replies>>

SpecConflict == Started(ConflictInputs) /\ [][ReportConflict]_vars

-----------------------------------------------------------------------------
(* Further claims on the confirmation store *)

\* C31: a confirmation created for a user who already has one pending replaces
\* it, so that only the new one is stored, and the new one stays retrievable
\* until its own expiry: the timer of a replaced confirmation does not evict it
C31_ReplacedTimerSparesNew ==
    [][/\ update'.handler = "createConfirmation" =>
             \E c \in StoredNext(update'.userId) :
                /\ StoredNext(update'.userId) = {c}
                /\ c.id = update'.confirmationId
                /\ c.createdAt = now
       /\ \A tm \in timers :
             (update'.handler = "timer" /\ timers' = timers \ {tm}) =>
                \A c \in Stored(tm.userId) :
                   tm.due # c.expires => StoredNext(tm.userId) = {c}
      ]_vars
\* the timer of a replaced confirmation has run and the newer one is still stored
C31_Witness ==
    /\ update.handler = "timer"
    /\ Len(issued[update.userId]) >= 2
    /\ \E c \in Stored(update.userId) :
          /\ c.id # update.confirmationId
          /\ c.id = issued[update.userId][Len(issued[update.userId])]

\* C32: each confirmation created for a user gets an id different from the id
\* of every confirmation created for that user before it, so that a callback
\* of an earlier prompt never matches a later confirmation
C32_IdsNeverRepeat ==
    \A u \in Users : \A j, k \in 1..Len(issued[u]) : j # k => issued[u][j] # issued[u][k]

\* C33: what was pending before a restart of the process is still there after
\* it: a confirmation stays retrievable until its expiry, and so do the
\* pending field edits of the sessions and the undo history
C33_RestartKeepsState ==
    [][update'.handler = "loadHistory" =>
          /\ \A u \in Users : StoredNext(u) = Stored(u)
          /\ session' = session
          /\ actionHistory' = actionHistory
      ]_vars

\* C34: an operation performed for one user (create, get or clear a
\* confirmation, the expiry of one; record, mark undone or clear history)
\* leaves the pending confirmation and the history list of every other user
\* as they were, however the handlers of the users interleave
C34_OtherUsersUntouched ==
    [][\A u, v \in Users :
          ("userId" \in DOMAIN update' /\ update'.userId = u /\ v # u) =>
             /\ v \in DOMAIN pendingConfirmations' <=> v \in DOMAIN pendingConfirmations
             /\ v \in DOMAIN pendingConfirmations =>
                   pendingConfirmations'[v] = pendingConfirmations[v]
             /\ v \in DOMAIN actionHistory' <=> v \in DOMAIN actionHistory
             /\ v \in DOMAIN actionHistory => actionHistory'[v] = actionHistory[v]
      ]_vars
\* u2 cleared its history while u1 has a pending confirmation and a history
C34_Witness ==
    /\ update.handler = "clearHistory"
    /\ update.userId = "u2"
    /\ update.returned
    /\ Stored("u1") # {}
    /\ HistoryOf(actionHistory, "u1") # <<>>

----------------------------------------------------------------------------
(* The gate in front of every handler: the authentication middleware and the  *)
(* rate-limit middleware with utils/rateLimiter.js.                            *)

\* the shipped instance: new RateLimiter({ maxRequests: 10, windowMs: 60000,
\* blockDurationMs: 30000 })
maxRequests == 10
windowMs == 60000
blockDurationMs == 30000

MaxUpdates == 4

\* String.prototype.split(','): the pieces between the commas
RECURSIVE split(_)
split(raw) ==
    IF \A i \in 1..Len(raw) : raw[i] # "," THEN <<raw>>
    ELSE LET k == CHOOSE i \in 1..Len(raw) :
                      raw[i] = "," /\ \A j \in 1..(i - 1) : raw[j] # ","
         IN  <<SubSeq(raw, 1, k - 1)>> \o split(SubSeq(raw, k + 1, Len(raw)))

\* a variant that lets every user through once some id is listed
authorized_AnyListed(ALLOWED_CHAT_IDS, userId) ==
    LET rawIds == trim(ALLOWED_CHAT_IDS)
        pieces == split(rawIds)
        allowedIds == SelectSeq([i \in 1..Len(pieces) |-> trim(pieces[i])],
                                LAMBDA id : id # <<>>)
    IN  rawIds = <<>> \/ Len(allowedIds) >= 0
\* the authentication middleware: TRUE when the update goes on to next(), FALSE
\* when it is answered with the access-denied reply.  An unset variable reads ''.
authorized(ALLOWED_CHAT_IDS, userId) ==
    LET rawIds == trim(ALLOWED_CHAT_IDS)
        pieces == split(rawIds)
        allowedIds == SelectSeq([i \in 1..Len(pieces) |-> trim(pieces[i])],
                                LAMBDA id : id # <<>>)
    IN  \/ rawIds = <<>>
        \/ ~ (/\ Len(allowedIds) > 0
              /\ ~ \E i \in 1..Len(allowedIds) : allowedIds[i] = userId)

\* a variant that lets one more request into the window
check_OneMore(map, userId, t) ==
    LET userData == IF userId \in DOMAIN map THEN map[userId]
                    ELSE [requests |-> <<>>, blockedUntil |-> 0]
        recent == SelectSeq(userData.requests, LAMBDA timestamp : t - timestamp < windowMs)
    IN  IF userData.blockedUntil > t
        THEN [users |-> MapSet(map, userId, userData), allowed |-> FALSE,
              resetIn |-> (userData.blockedUntil - t + 999) \div 1000]
        ELSE IF Len(recent) > maxRequests
        THEN [users |-> MapSet(map, userId, [requests |-> recent,
                                             blockedUntil |-> t + blockDurationMs]),
              allowed |-> FALSE, resetIn |-> (blockDurationMs + 999) \div 1000]
        ELSE [users |-> MapSet(map, userId, [requests |-> Append(recent, t),
                                             blockedUntil |-> userData.blockedUntil]),
              allowed |-> TRUE, resetIn |-> (windowMs + 999) \div 1000]
\* RateLimiter.check at time t: the Map after the call and the answer
check(map, userId, t) ==
    LET userData == IF userId \in DOMAIN map THEN map[userId]
                    ELSE [requests |-> <<>>, blockedUntil |-> 0]
        recent == SelectSeq(userData.requests, LAMBDA timestamp : t - timestamp < windowMs)
    IN  IF userData.blockedUntil > t
        THEN [users |-> MapSet(map, userId, userData), allowed |-> FALSE,
              resetIn |-> (userData.blockedUntil - t + 999) \div 1000]
        ELSE IF Len(recent) >= maxRequests
        THEN [users |-> MapSet(map, userId, [requests |-> recent,
                                             blockedUntil |-> t + blockDurationMs]),
              allowed |-> FALSE, resetIn |-> (blockDurationMs + 999) \div 1000]
        ELSE [users |-> MapSet(map, userId, [requests |-> Append(recent, t),
                                             blockedUntil |-> userData.blockedUntil]),
              allowed |-> TRUE, resetIn |-> (windowMs + 999) \div 1000]

\* one update passes the two middleware; kind is "command" for a text that
\* starts with '/', "text" for any other message and "callback" for a button.
\* ALLOWED_CHAT_IDS is read from the environment on every update.
Update(u, ALLOWED_CHAT_IDS, kind) ==
    /\ inputs < MaxUpdates
    /\ inputs' = inputs + 1
    /\ LET userId == IF u = "u1" THEN <<"7">> ELSE <<"7", "1">>  \* String(ctx.from.id)
           pass == authorized(ALLOWED_CHAT_IDS, userId)
           limited == pass /\ kind # "command"
           answer == check(users, u, now)
           reached == pass /\ (limited => answer.allowed)
       IN  /\ users' = IF limited THEN answer.users ELSE users
           /\ allowedAt' = IF limited /\ answer.allowed
                           THEN [allowedAt EXCEPT ![u] = Append(@, now)]
                           ELSE allowedAt
           /\ replies' = IF ~pass THEN <<"access_denied">>
                         ELSE IF ~reached THEN <<"rate_limited">>
                         ELSE <<>>
           /\ calls' = IF reached /\ kind = "text"
                       THEN <<[op |-> "interpretMessage"]>> ELSE <<>>
           /\ update' = [handler |-> "update", userId |-> u, kind |-> kind,
                         ALLOWED_CHAT_IDS |-> ALLOWED_CHAT_IDS, reached |-> reached,
                         check |-> IF limited THEN <<answer.allowed>> ELSE <<>>]
    /\ classified' = <<>>
    /\ NoHistoryIO /\ NoInvalidation
    /\ UNCHANGED <<now, pendingConfirmations, timers, issued, handlers, confirmedRuns,
                   actionHistory, session, deleteButtons, conflictPrompts>>

\* time passes between two updates
Elapse(d) ==
    /\ now < windowMs
    /\ now' = now + d
    /\ update' = [handler |-> "tick"]
    /\ calls' = <<>> /\ classified' = <<>> /\ replies' = <<>>
    /\ NoHistoryIO /\ NoInvalidation
    /\ UNCHANGED <<inputs, pendingConfirmations, timers, issued, handlers,
                   confirmedRuns, actionHistory, flowVars>>

NextGate ==
    \* the variable unset, one id, two ids with blanks, and separators only
    \/ \E u \in Users, kind \in {"command", "text", "callback"},
          ALLOWED_CHAT_IDS \in { <<>>, <<"7">>, <<" ", "7", " ", ",", "9", ",">>,
                                 <<",", " ">> } :
          Update(u, ALLOWED_CHAT_IDS, kind)
    \* half the window, and one millisecond less
    \/ \E d \in {blockDurationMs - 1, blockDurationMs} : Elapse(d)

\* the bot has been running for a second: u1 sent nine messages in its first
\* 900 ms, all of them let through
InitGate ==
    /\ now = 1000
    /\ inputs = 0
    /\ pendingConfirmations = <<>>
    /\ timers = {}
    /\ issued = [u \in Users |-> <<>>]
    /\ handlers = [i \in 1..MaxInputs |-> Idle]
    /\ confirmedRuns = [u \in Users |-> <<>>]
    /\ actionHistory = <<>>
    /\ historyFile = {}
    /\ logged = <<>>
    /\ session = [u \in Users |-> EmptySession]
    /\ deleteButtons = [u \in Users |-> {}]
    /\ conflictPrompts = [u \in Users |-> <<>>]
    /\ users = [u \in {"u1"} |-> [requests |-> [i \in 1..9 |-> 100 * i],
                                  blockedUntil |-> 0]]
    /\ allowedAt = [u \in Users |-> IF u = "u1" THEN [i \in 1..9 |-> 100 * i] ELSE <<>>]
    /\ update = [handler |-> "start"]
    /\ calls = <<>>
    /\ invalidated = <<>>
    /\ classified = <<>>
    /\ replies = <<>>

SpecGate == InitGate /\ [][NextGate]_vars

\* C35: when ALLOWED_CHAT_IDS lists ids, an update from a user whose id is not
\* among them reaches no handler: no remote call is made, the rate limiter and
\* every other per-user state stay as they were, and the access-denied reply
\* is the only message sent
C35_UnlistedNeverReaches ==
    [][\A u \in Users :
          LET id == IF u = "u1" THEN "7" ELSE "71"
              listed == IF update'.ALLOWED_CHAT_IDS = <<"7">> THEN {"7"}
                        ELSE IF update'.ALLOWED_CHAT_IDS = <<" ", "7", " ", ",", "9", ",">>
                        THEN {"7", "9"}
                        ELSE {}
          IN  (/\ update'.handler = "update"
               /\ update'.userId = u
               /\ listed # {}
               /\ id \notin listed) =>
                 /\ ~update'.reached
                 /\ update'.check = <<>>
                 /\ calls' = <<>>
                 /\ replies' = <<"access_denied">>
                 /\ UNCHANGED <<users, allowedAt, session, pendingConfirmations,
                                actionHistory, deleteButtons, conflictPrompts>>
      ]_vars
\* u2 was turned away although a listed id is the first character of its own id
C35_Witness ==
    /\ update.handler = "update"
    /\ update.userId = "u2"
    /\ update.ALLOWED_CHAT_IDS = <<" ", "7", " ", ",", "9", ",">>
    /\ update.kind = "text"
    /\ replies = <<"access_denied">>
    /\ "u1" \in DOMAIN users

\* C38: for every user, any window of windowMs milliseconds holds at most
\* maxRequests checks answered as allowed, whatever the number and the timing
\* of the checks; the checks answered as denied are not counted, so the
\* limiter's list is made of allowed checks only
C38_AtMostMaxPerWindow ==
    \A u \in Users :
        LET times == allowedAt[u]
        IN  /\ \A k \in 1..Len(times) :
                  Cardinality({j \in 1..Len(times) :
                                  /\ times[k] <= times[j]
                                  /\ times[j] < times[k] + windowMs}) <= maxRequests
            /\ u \in DOMAIN users =>
                  \E k \in 0..Len(times) :
                      users[u].requests = SubSeq(times, k + 1, Len(times))
\* a user was stopped at the limit and let in again once the window had passed
C38_Witness ==
    /\ update.handler = "update"
    /\ update.check = <<TRUE>>
    /\ Len(allowedAt[update.userId]) > maxRequests
    /\ users[update.userId].blockedUntil > 0

----------------------------------------------------------------------------
(* Two callbacks of one conflict prompt in flight: each handler is suspended at *)
(* its await of googleService.createEvent.                                      *)

\* bot.action('conflict_force') and bot.action(/conflict_accept:(\d+)/) up to the
\* await of createEvent: the session is read and the call is issued
ConflictArrives(i, u, k, name, idx) ==
    /\ handlers[i] = Idle
    /\ \A j \in 1..(i - 1) : handlers[j] # Idle     \* the first free slot
    /\ k \in 1..Len(conflictPrompts[u])
    /\ IF name = "conflict_accept" THEN idx < conflictPrompts[u][k] ELSE idx = 0
    /\ inputs < MaxFlowInputs
    /\ inputs' = inputs + 1
    /\ LET sess == session[u]
           lost == \/ sess.pendingEvent = {}
                   \/ name = "conflict_accept" /\ sess.conflictSuggestions = {}
           list == IF name = "conflict_accept" /\ ~lost
                   THEN CHOOSE l \in sess.conflictSuggestions : TRUE
                   ELSE <<>>
           invalid == name = "conflict_accept" /\ idx + 1 > Len(list)
           intent == CHOOSE e \in sess.pendingEvent : TRUE
       IN  IF lost \/ invalid
           THEN /\ handlers' = handlers
                /\ calls' = <<>>
                /\ replies' = IF lost THEN <<"event_data_lost">>
                              ELSE <<"invalid_suggestion">>
           ELSE /\ handlers' = [handlers EXCEPT ![i] =
                                   [kind |-> name, userId |-> u, intent |-> intent]]
                /\ calls' = <<GoogleCall("createEvent", intent.summary, "start",
                                         IF name = "conflict_force" THEN intent.start
                                         ELSE list[idx + 1].startISO,
                                         name)>>
                /\ replies' = <<>>
    /\ update' = [handler |-> name, phase |-> "arrive", userId |-> u, prompt |-> k]
    /\ classified' = <<>>
    /\ NoHistoryIO /\ NoInvalidation
    /\ UNCHANGED <<now, pendingConfirmations, timers, issued, confirmedRuns,
                   actionHistory, flowVars>>

\* after the await; ok: createEvent succeeded.  The cache is invalidated, the
\* message is edited and the two session slots are deleted; a failure is caught.
ConflictResumes(i, ok) ==
    /\ handlers[i] # Idle
    /\ handlers[i].kind \in {"conflict_force", "conflict_accept"}
    /\ LET h == handlers[i]
           u == h.userId
       IN  /\ handlers' = [handlers EXCEPT ![i] = Idle]
           /\ session' = IF ok THEN [session EXCEPT ![u] = ClearConflict(@)] ELSE session
           /\ invalidated' = IF ok THEN <<"events">> ELSE <<>>
           /\ replies' = IF ~ok THEN <<"error_creating_event">>
                         ELSE IF h.kind = "conflict_force" THEN <<"scheduled_with_conflict">>
                         ELSE <<"scheduled">>
           /\ update' = [handler |-> h.kind, phase |-> "resume", userId |-> u]
    /\ calls' = <<>> /\ classified' = <<>>
    /\ NoHistoryIO
    /\ UNCHANGED <<now, inputs, pendingConfirmations, timers, issued, confirmedRuns,
                   actionHistory, deleteButtons, conflictPrompts, users, allowedAt>>

NextRace ==
    \/ \E u \in FlowUsers, text \in Texts : OnText(u, text)
    \/ \E i \in 1..2, u \in FlowUsers, k \in 1..MaxFlowInputs, idx \in 0..1,
          name \in {"conflict_force", "conflict_accept"} :
          ConflictArrives(i, u, k, name, idx)
    \/ \E i \in 1..2, ok \in BOOLEAN : ConflictResumes(i, ok)

SpecRace == Init /\ [][NextRace]_vars

\* C36: a stored pendingEvent leads to at most one createEvent call: no two
\* conflict_force or conflict_accept handlers of a user are in flight with a
\* createEvent call issued for the same proposal
C36_CreatedOnce ==
    \A i, j \in 1..MaxInputs :
        (/\ i # j
         /\ handlers[i] # Idle /\ handlers[j] # Idle
         /\ handlers[i].kind \in {"conflict_force", "conflict_accept"}
         /\ handlers[j].kind \in {"conflict_force", "conflict_accept"}
         /\ handlers[i].userId = handlers[j].userId)
        => handlers[i].intent # handlers[j].intent

----------------------------------------------------------------------------
(* A further claim on the undo command *)

\* C37: when the inverse remote call throws during the undo command, the entry
\* is not flagged undone, the history in memory and on file is unchanged, the
\* user gets the error reply, and the next undo command finds the same entry
C37_FailedUndoKeepsEntry ==
    [][\A u \in Users :
          (Undoes(u) /\ ~update'.ok) =>
             /\ Len(calls') = 1
             /\ actionHistory' = actionHistory
             /\ historyFile' = historyFile
             /\ replies' = <<"error_undoing">>
             /\ update'.lastAction # {}
             /\ \A a \in update'.lastAction : ~a.undone
             /\ getLastAction(actionHistory', u) = update'.lastAction
      ]_vars
\* the inverse call of an entry that has an older entry behind it failed
C37_Witness ==
    /\ update.handler = "desfazer"
    /\ ~update.ok
    /\ calls # <<>>
    /\ Len(HistoryOf(actionHistory, update.userId)) >= 2
    /\ getLastAction(actionHistory, update.userId) = update.lastAction

----------------------------------------------------------------------------
(* processIntent, the smart_schedule branch.  Times are minutes of the day in   *)
(* America/Sao_Paulo; the day searched first is day 0.                          *)

MaxBusy == 2             \* busy intervals getFreeBusy returns for the first day

\* the search of one day: busySlots.sort by start, the for loop over the busy
\* intervals with its pointer, and the check after the last interval; {} when
\* the day has no gap, else {the slot}
findSlot(startBase, endBase, duration, busySlots) ==
    LET Slot(pointer) == {[start |-> pointer, end |-> pointer + duration]}
        RECURSIVE sortByStart(_)
        sortByStart(starts) ==
            IF starts = {} THEN <<>>
            ELSE LET first == CHOOSE a \in starts : \A b \in starts : a <= b
                 IN  SelectSeq(busySlots, LAMBDA busy : busy.start = first)
                     \o sortByStart(starts \ {first})
        RECURSIVE scan(_, _)
        scan(pointer, rest) ==
            IF rest = <<>>
            THEN IF endBase - pointer >= duration THEN Slot(pointer) ELSE {}
            ELSE IF Head(rest).start - pointer >= duration THEN Slot(pointer)
            ELSE scan(IF Head(rest).end > pointer THEN Head(rest).end ELSE pointer,
                      Tail(rest))
    IN  scan(startBase, sortByStart({busySlots[i].start : i \in 1..Len(busySlots)}))

\* what the classifier and getFreeBusy hand to the branch: the period, the
\* duration ({} when the intent has none) and the busy intervals of the first
\* day, in the order returned; the later days are free
ScheduleInputs ==
    LET Busy(a, b) == [start |-> a, end |-> b]
        Intervals == {Busy(540, 690), Busy(600, 660), Busy(480, 600), Busy(690, 1100),
                      Busy(840, 900), Busy(1020, 1080)}
    IN  {[handler |-> "start", kind |-> "schedule", period |-> p, duration |-> d,
          busySlots |-> b] :
            p \in {"morning", "afternoon", "day"}, d \in {{}, {30}, {90}},
            b \in UNION {[1..n -> Intervals] : n \in 0..MaxBusy}}

\* else if (intent.tipo === 'smart_schedule')
SmartSchedule ==
    /\ update.handler = "start"
    /\ update.kind = "schedule"
    /\ LET duration == IF update.duration = {} THEN 60
                       ELSE CHOOSE d \in update.duration : TRUE
           startBase == IF update.period = "afternoon" THEN 13 * 60 ELSE 9 * 60
           endBase == IF update.period = "morning" THEN 12 * 60 ELSE 18 * 60
           RECURSIVE search(_)
           search(attempts) ==
               IF attempts >= 7 THEN {}
               ELSE LET foundSlot == findSlot(startBase, endBase, duration,
                                              IF attempts = 0 THEN update.busySlots
                                              ELSE <<>>)
                    IN  IF foundSlot # {}
                        THEN {[day |-> attempts, start |-> f.start, end |-> f.end] :
                                 f \in foundSlot}
                        ELSE search(attempts + 1)
           found == search(0)
       IN  /\ update' = [handler |-> "smart_schedule", kind |-> "schedule",
                         period |-> update.period, duration |-> update.duration,
                         busySlots |-> update.busySlots,
                         window |-> [start |-> startBase, end |-> endBase],
                         found |-> found]
           /\ calls' = IF found = {} THEN <<>>
                       ELSE LET f == CHOOSE x \in found : TRUE
                            IN  <<GoogleCall("createEvent", "Reuniao", "start",
                                             <<f.day, f.start, f.end>>, "smart_schedule")>>
           /\ invalidated' = IF found = {} THEN <<>> ELSE <<"events">>
           /\ replies' = IF found = {} THEN <<"searching", "no_free_slot">>
                         ELSE <<"searching", "scheduled_automatically">>
    /\ UNCHANGED <<confVars, flowVars, actionHistory, historyFile, logged, classified>>

----------------------------------------------------------------------------
(* processIntent, the trello_create branch: the name a card is created with     *)

\* the name handed to trelloService.createCard.  name and title are texts (<<>>
\* when absent); listing is "fail" when trelloService.listCards throws;
\* existingCards are the names of the cards of the target list; desc holds the
\* texts the two patterns of the title fallback capture, each in a set that is
\* empty when its pattern does not match.
createdName(name, title, listing, existingCards, desc) ==
    LET Digits == <<"0", "1", "2", "3", "4", "5", "6", "7", "8", "9">>
        DigitSet == {Digits[i] : i \in 1..10}
        \* text.match(/^(\d+)\./): {} for null, else {the digits captured}
        match(text) ==
            LET n == Leading(text, DigitSet)
            IN  IF n > 0 /\ n < Len(text) /\ text[n + 1] = "."
                THEN {SubSeq(text, 1, n)} ELSE {}
        RECURSIVE parseInt(_)
        parseInt(ds) ==
            IF ds = <<>> THEN 0
            ELSE 10 * parseInt(SubSeq(ds, 1, Len(ds) - 1))
                 + (CHOOSE d \in 0..9 : Digits[d + 1] = ds[Len(ds)])
        RECURSIVE String(_)
        String(n) ==
            IF n < 10 THEN <<Digits[n + 1]>>
            ELSE String(n \div 10) \o <<Digits[(n % 10) + 1]>>
        nums == {parseInt(ds) : ds \in UNION {match(existingCards[i]) :
                                                 i \in 1..Len(existingCards)}}
        maxNum == IF nums = {} THEN 0 ELSE CHOOSE a \in nums : \A b \in nums : b <= a
        nextNum == String(maxNum + 1)
        prefix == (IF Len(nextNum) < 2 THEN <<"0">> ELSE <<>>) \o nextNum \o <<".", " ">>
        \* if (!intentData.name && intentData.title) intentData.name = intentData.title
        named == IF name = <<>> /\ title # <<>> THEN title ELSE name
        numbered ==
            IF listing = "fail" THEN name
            ELSE IF named # <<>> /\ match(named) = {} THEN prefix \o named
            ELSE named
    IN  \* FALLBACK Title: `${clienteMatch[1].trim()} - ${tipoMatch[1].trim()}`
        IF desc.cliente # {} /\ desc.tipo # {}
        THEN trim(CHOOSE c \in desc.cliente : TRUE) \o <<" ", "-", " ">>
             \o trim(CHOOSE t \in desc.tipo : TRUE)
        ELSE numbered

\* what the classifier and the board hand to the branch
CreateInputs ==
    LET Names == {<<>>, <<"A", "t", "a">>, <<"7", ".", " ", "A", "t", "a">>,
                  <<"2", "0", "2", "4", " ", "A", "t", "a">>}
        CardNames == {<<"0", "1", ".", " ", "X">>, <<"0", "9", ".", " ", "Y">>,
                      <<"9", "9", ".", " ", "Z">>, <<"3", " ", "W">>, <<"V">>}
        Descs == {[cliente |-> {}, tipo |-> {}],
                  [cliente |-> {<<"A", "c", "m", "e", " ">>}, tipo |-> {}],
                  [cliente |-> {<<"A", "c", "m", "e", " ">>}, tipo |-> {<<"C", "i", "v", "e", "l">>}]}
    IN  {[handler |-> "start", kind |-> "create", name |-> n, title |-> t,
          listing |-> l, existingCards |-> cs, desc |-> d] :
            n \in Names, t \in {<<>>, <<"T">>}, l \in {"ok", "fail"},
            cs \in UNION {[1..k -> CardNames] : k \in 0..MaxCandidates},
            d \in Descs}

\* if (intent.tipo === 'trello_create'), for a target list that was resolved
TrelloCreate ==
    /\ update.handler = "start"
    /\ update.kind = "create"
    /\ LET sent == createdName(update.name, update.title, update.listing,
                               update.existingCards, update.desc)
       IN  /\ update' = [handler |-> "trello_create", kind |-> "create",
                         name |-> update.name, title |-> update.title,
                         listing |-> update.listing,
                         existingCards |-> update.existingCards,
                         desc |-> update.desc, sent |-> sent]
           /\ calls' = <<TrelloCall("createCard", "new", "name", sent, "trello_create")>>
    /\ invalidated' = <<"trello">>
    /\ replies' = <<"card_created">>
    /\ UNCHANGED <<confVars, flowVars, actionHistory, historyFile, logged, classified>>

SpecIntent == Started(ScheduleInputs \cup CreateInputs) /\ [][SmartSchedule \/ TrelloCreate]_vars

\* C40: every card created by trello_create in a resolved target list is sent
\* to the board with a name that starts with a numeric prefix (digits and a
\* dot): the requested name itself when it has one, else the requested name
\* behind a prefix of at least two digits
C40_CreatedNameIsNumbered ==
    (update.handler = "trello_create") =>
        LET DigitSet == {"0", "1", "2", "3", "4", "5", "6", "7", "8", "9"}
            Prefixed(text) ==
                LET n == Leading(text, DigitSet)
                IN  n > 0 /\ n < Len(text) /\ text[n + 1] = "."
            sent == update.sent
            requested == IF update.name = <<>> THEN update.title ELSE update.name
        IN  /\ Prefixed(sent)
            /\ IF Prefixed(requested) THEN sent = requested
               ELSE /\ Leading(sent, DigitSet) >= 2
                    /\ Drop(sent, Leading(sent, DigitSet) + 2) = requested

====
